---- MODULE Spec2Model ----
(***************************************************************************)
(* Decoder supervision and pipeline orchestration of src/app.py:           *)
(* the supervisor thread (_decoder_supervisor_loop), the launcher          *)
(* functions (_start_vlc_player, _start_ffmpeg_pipeline,                   *)
(* _start_decoder_process) and the request handlers api_decoder_start and  *)
(* api_decoder_stop, running as concurrent threads over the module-level   *)
(* globals decoder_should_run, decoder_process, decoder_aplay_process.     *)
(* The relay thread of the ffmpeg pipeline (_pump_and_meter) is followed   *)
(* in PumpSpec and RelaunchSpec, the capture meter (read_audio_levels) in  *)
(* MeterSpec and LevelSpec, the status queries in QuerySpec, the answer of *)
(* a failed start in ReplySpec, the settings a launch is given in          *)
(* ParamSpec and the arguments of the backends in BackendSpec, the bytes   *)
(* the relay thread reads and writes in RelaySpec, the restarts of the     *)
(* capture meter in CaptureSpec and the resolution of the output device in *)
(* DeviceSpec; Spec leaves all of these at rest.                           *)
(*                                                                         *)
(* A thread's code between two blocking calls (time.sleep, the wait for a  *)
(* child) is one atomic action; the blocking calls are the points where    *)
(* the other threads and the operating system (a backend process exiting)  *)
(* interleave.  Popen.terminate() and pkill deliver SIGTERM, which ends    *)
(* the backend: a terminated process is dead in the next state.            *)
(***************************************************************************)
EXTENDS Integers, Sequences, FiniteSets, TLC

(* ---- bounds of the model ---- *)
\* process-table slots: the number of backend processes that exist at once
MaxProc == 2
\* the supervisor's consecutive_failures counter is kept up to this value (the code only
\* counts and prints it); backoff is kept exactly
MaxFailures == 2
\* process-table slots where two ffmpeg pipelines are followed with their pump threads
MaxPumpProc == 4
\* _pump_and_meter threads that exist at once
MaxPump == 2
\* the largest stored playbackCacheSecs
MaxCacheSecs == 1
\* read_audio_levels: empty_count and error_count are kept up to this value
MaxCount == 10
\* read_audio_levels: the largest number of 16-bit samples in one capture read
MaxSamples == 3

(* ---- program constants ---- *)
\* backoff is kept in ticks of 1/32 s, so that 1.0 * 1.5^k is exact up to the cap
\* max_backoff = 10.0 s
max_backoff == 320
\* backoff = 1.0 s
initial_backoff == 32
\* _pump_and_meter: chunk_size, bytes
chunk_size == 16384
\* read_audio_levels, line 722: empty_count >= 10
empty_limit == 10
\* read_audio_levels, line 722: error_count >= 3
error_limit == 3
\* ALSA capture devices: the one _detect_default_devices falls back on, and another
Devices == {"hw:1,0", "hw:2,0"}
\* read_audio_levels, lines 747 and 753: levels are rms / 32768.0; a level is kept
\* in units of 1/32768, rounded down, so that 32768 is 1.0
FullScale == 32768
\* the values of a signed 16-bit sample that the reads deliver: both ends of the range,
\* the largest magnitude of a symmetric signal, silence
SampleValues == {-32768, -32767, 0, 32767}

Threads == {"sup", "start"}
Kinds == {"cvlc", "ffmpeg", "aplay", "mpg123"}
\* the stream URL as the launchers see it: none, one that contains '.mp3', one that does not
Urls == {"", "mp3", "aac"}
\* None for a process handle
None == 0
\* whose launch a process belongs to: a thread's current launch, or an earlier launch
Labels == Threads \cup {"old"}

\* global audio_levels at import, line 63
ZeroLevels == [left |-> 0, right |-> 0]

(* ---- error texts and answers ---- *)
\* A text is kept as the keywords it holds and its length in characters: err are the
\* keywords of a backend's or an exception's own message, pre those of the words the
\* handler puts in front of it; cut tells that characters of the message were dropped.
EmptyText == [err |-> {}, pre |-> {}, len |-> 0, cut |-> FALSE]
\* no answer yet
NoReply == [success |-> FALSE, code |-> 0, msg |-> "", details |-> EmptyText]

\* no decoder settings have been saved
NoConfig == [bufferSecs |-> <<>>, playbackCacheSecs |-> <<>>, volume |-> <<>>]
\* no backend has been started
NoBackend == [kind |-> "none"]

\* no launcher function has been called
NoArgs == [by |-> "none", volume |-> 0, buffer_secs |-> 0, playback_cache_secs |-> 0]

VARIABLES
    decoder_should_run,     \* global decoder_should_run
    decoder_process,        \* global decoder_process: a process id or None
    decoder_aplay_process,  \* global decoder_aplay_process: a process id or None
    procs,                  \* the operating system's process table
    status_url,             \* load_status()['decoder']['url']
    sup_pc,                 \* position of the supervisor thread
    backoff,                \* _decoder_supervisor_loop: backoff (ticks)
    consecutive_failures,   \* _decoder_supervisor_loop: consecutive_failures
    start_pc,               \* position of the api_decoder_start handler
    stop_pc,                \* position of the api_decoder_stop handler
    loc,                    \* per thread: the launcher's local process handles
    launch_log,             \* per thread: the strategies invoked by its current launch
    stopped                 \* history: the number (up to 2) of api_decoder_stop calls in
                            \* a row since another thread or a process last took a step
                            \* (every step but a stop request's resets it)

VARIABLES
    pumps,                  \* the _pump_and_meter threads: per thread its position and locals
    playback_cache_secs     \* the stored playbackCacheSecs, clamped (lines 289-290)

VARIABLES
    meter                   \* the state of read_audio_levels: <<>> while it is the state
                            \* at thread start on the default device, else <<m>> with m a
                            \* record of the fields below

\* the meter at thread start, on the device d, with f the detected input device
MeterStart(d, f) ==
    [samples |-> <<>>,
     audio_levels |-> ZeroLevels,
     device_in_use |-> d,
     empty_count |-> 0,
     error_count |-> 0,
     detected_input |-> f,
     empty_run |-> 0,
     hard_run |-> 0]
TheMeter == IF meter = <<>> THEN MeterStart("hw:1,0", "hw:1,0") ELSE meter[1]
KeptMeter(m) == IF m = MeterStart("hw:1,0", "hw:1,0") THEN <<>> ELSE <<m>>

\* read_audio_levels: device_in_use
device_in_use == TheMeter.device_in_use
\* read_audio_levels: empty_count
empty_count == TheMeter.empty_count
\* read_audio_levels: error_count
error_count == TheMeter.error_count
\* _detect_default_devices()['input']
detected_input == TheMeter.detected_input
\* history: the capture reads in a row that returned no data
empty_run == TheMeter.empty_run
\* history: the capture reads in a row that ended in a non-zero exit, a timeout or an
\* exception
hard_run == TheMeter.hard_run
\* read_audio_levels: samples of the last read (<<>>: none)
samples == TheMeter.samples
\* global audio_levels: left and right, in units of 1/32768
audio_levels == TheMeter.audio_levels

VARIABLES
    status_reply            \* the body of the last answer of api_status

VARIABLES
    request                 \* what the request handlers and the launcher functions
                            \* compute: <<>> before the first request, else <<r>> with r a
                            \* record of the fields below

\* before the first request, with the arguments a of a launcher's call
RequestStart(a) ==
    [last_error |-> EmptyText,
     start_reply |-> NoReply,
     stderr_output |-> [t \in Threads |-> EmptyText],
     decoder_config |-> NoConfig,
     launch_args |-> a,
     backend_args |-> NoBackend]
TheRequest == IF request = <<>> THEN RequestStart(NoArgs) ELSE request[1]
Kept(r) == IF r = RequestStart(NoArgs) THEN <<>> ELSE <<r>>

\* api_decoder_start: last_error (the empty text for None)
last_error == TheRequest.last_error
\* the last answer of api_decoder_start
start_reply == TheRequest.start_reply
\* per thread: _start_vlc_player's stderr_output
stderr_output == TheRequest.stderr_output
\* load_status()['decoder']: bufferSecs, playbackCacheSecs and volume, each <<>> when the
\* key is absent
decoder_config == TheRequest.decoder_config
\* the volume, buffer_secs and playback_cache_secs of the last call of a launcher
\* function, and the calling thread
launch_args == TheRequest.launch_args
\* what the last backend was started with
backend_args == TheRequest.backend_args

VARIABLES
    relay                   \* the bytes of one _pump_and_meter thread, block by block: <<>>
                            \* where they are not followed, else a record (see RelayStart)

VARIABLES
    capture                 \* the read_audio_levels threads and the global running: <<>>
                            \* where they are not followed, else a record (see CaptureStart)

VARIABLES
    devices                 \* the device enumerator's output and the output devices the
                            \* launches resolve: <<>> where they are not followed, else a
                            \* record (see DevicesStart)

globals == <<decoder_should_run, decoder_process, decoder_aplay_process>>
env == <<status_url>>
supVars == <<sup_pc, backoff, consecutive_failures>>
startVars == <<start_pc>>
stopVars == <<stop_pc>>
launchVars == <<loc, launch_log>>
pumpVars == <<pumps, playback_cache_secs>>
meterVars == <<meter>>
queryVars == <<status_reply>>
requestVars == <<request>>
threadVars == <<relay, capture, devices>>
\* what the decoder threads do not write
sideVars == <<meterVars, queryVars, requestVars, threadVars>>
vars == <<globals, procs, env, supVars, startVars, stopVars, launchVars, stopped, pumpVars,
          sideVars>>

\* the slots of the process table
ProcIds == DOMAIN procs

(* ---- the process table ---- *)
Free == [kind |-> "none", state |-> "free", launch |-> "none"]
\* a launcher call's locals: two process handles and the stream_url it was given
NoLoc == [a |-> None, b |-> None, url |-> ""]

\* Popen.poll() is None
Alive(P, h) == h # None /\ P[h].state = "alive"
\* Popen.poll() is not None
Exited(P, h) == h # None /\ P[h].state # "alive"

FreeIds(P) == {i \in ProcIds : P[i].state = "free"}
MinOf(S) == CHOOSE x \in S : \A y \in S : x <= y
\* the slot the next Popen gets
NewId(P) == MinOf(FreeIds(P))

\* subprocess.Popen([...]) of a backend of kind k by the launch g
Popen(P, k, g) ==
    [P EXCEPT ![NewId(P)] = [kind |-> k, state |-> "alive", launch |-> g]]

\* Popen.terminate(): SIGTERM to a process that has not exited, nothing otherwise
Terminate(P, h) ==
    IF Alive(P, h) THEN [P EXCEPT ![h].state = "dead"] ELSE P

\* pkill -x <name> for every name in K
Pkill(P, K) ==
    [i \in ProcIds |-> IF P[i].state = "alive" /\ P[i].kind \in K
                       THEN [P[i] EXCEPT !.state = "dead"] ELSE P[i]]

\* the handles the pump threads hold (ffmpeg_proc and aplay_proc of the closure)
PumpHeld(U) == {U[p].ff : p \in DOMAIN U} \cup {U[p].ap : p \in DOMAIN U}

\* the handles some thread or global still holds after the step
HeldNext == {decoder_process', decoder_aplay_process'}
              \cup {loc'[t].a : t \in Threads} \cup {loc'[t].b : t \in Threads}
              \cup PumpHeld(pumps')

\* an exited process that nobody holds a handle of leaves the table
Reap(P) ==
    [i \in ProcIds |-> IF P[i].state = "dead" /\ i \notin HeldNext THEN Free ELSE P[i]]

\* the table as a Popen finds it: exited processes whose handles the caller is about to
\* drop have left it (H: the handles that stay held)
ReapHeld(P, H) ==
    [i \in ProcIds |-> IF P[i].state = "dead" /\ i \notin H THEN Free ELSE P[i]]

\* thread t begins a new launch: the processes of its last launch are those of an earlier one
NewLaunch(P, t) ==
    [i \in ProcIds |-> IF P[i].launch = t THEN [P[i] EXCEPT !.launch = "old"] ELSE P[i]]

(* ---- status probes ---- *)
\* a probe that looks at the main process only
MainProcessRunning == Alive(procs, decoder_process)

\* _decoder_supervisor_loop lines 256-271: process_running
ProcessRunning ==
    /\ Alive(procs, decoder_process)
    /\ (decoder_aplay_process # None => Alive(procs, decoder_aplay_process))

\* pgrep -x <kind> finds a process
Pgrep(k) == \E i \in ProcIds : procs[i].state = "alive" /\ procs[i].kind = k

\* get_decoder_status()
get_decoder_status ==
    \/ decoder_should_run
    \/ IF Alive(procs, decoder_process)
       THEN (decoder_aplay_process # None => Alive(procs, decoder_aplay_process))
       ELSE \/ (Pgrep("ffmpeg") /\ Pgrep("aplay"))
            \/ (Pgrep("mpg123") /\ Pgrep("aplay"))
            \/ Pgrep("cvlc")

\* is_mp3_like of _start_decoder_process
is_mp3_like(u) == u = "mp3"

\* a backoff without the cap
NextBackoffUncapped(b) == (3 * b) \div 2

\* backoff = min(backoff * 1.5, max_backoff), in ticks
NextBackoff(b) == IF 3 * b >= 2 * max_backoff THEN max_backoff ELSE (3 * b) \div 2

TypeOK ==
    /\ decoder_should_run \in BOOLEAN
    /\ decoder_process \in ProcIds \cup {None}
    /\ decoder_aplay_process \in ProcIds \cup {None}
    /\ status_url \in Urls
    /\ backoff \in initial_backoff..max_backoff
    /\ consecutive_failures \in 0..MaxFailures
    /\ stopped \in 0..2
    /\ playback_cache_secs \in 0..MaxCacheSecs
    /\ \A p \in DOMAIN pumps :
          /\ pumps[p].pc \in {"none", "prefill_read", "relay_read", "relay_pause"}
          /\ pumps[p].ff \in ProcIds \cup {None}
          /\ pumps[p].ap \in ProcIds \cup {None}
          /\ pumps[p].len \in Nat
          /\ pumps[p].pipe \in {"empty", "data", "drained"}

\* before the first request, with the arguments a of a launcher's call
RequestWith(a) == request = Kept(RequestStart(a))

RequestAtStart == RequestWith(NoArgs)

\* the threads that are followed in their own specifications only
ThreadsAtStart == relay = <<>> /\ capture = <<>> /\ devices = <<>>

MeterAtStart(d, f) ==
    /\ status_reply = [decoder |-> FALSE, audioLevels |-> ZeroLevels]
    /\ meter = KeptMeter(MeterStart(d, f))

Init ==
    /\ MeterAtStart("hw:1,0", "hw:1,0")
    /\ ThreadsAtStart
    /\ RequestAtStart
    /\ decoder_should_run = FALSE
    /\ decoder_process = None
    /\ decoder_aplay_process = None
    /\ procs = [i \in 1..MaxProc |-> Free]
    /\ status_url \in Urls
    /\ sup_pc = "start"
    /\ backoff = initial_backoff
    /\ consecutive_failures = 0
    /\ start_pc = "idle"
    /\ stop_pc = "idle"
    /\ loc = [t \in Threads |-> NoLoc]
    /\ launch_log = [t \in Threads |-> <<>>]
    /\ stopped = 0
    /\ pumps = <<>>
    /\ playback_cache_secs = 0

(* ---- the operating system ---- *)
\* a backend process exits on its own (stream unreachable, device error, crash)
ProcExit(i) ==
    /\ procs[i].state = "alive"
    /\ stopped' = 0
    /\ UNCHANGED <<pumpVars, sideVars>>
    /\ UNCHANGED <<globals, env, supVars, startVars, stopVars, launchVars>>
    /\ procs' = Reap([procs EXCEPT ![i].state = "dead"])

\* the handles the launchers of the other threads and the pump threads hold
OtherLoc(t) == {loc[o].a : o \in Threads \ {t}} \cup {loc[o].b : o \in Threads \ {t}}
                  \cup PumpHeld(pumps)
Tracked == {decoder_process, decoder_aplay_process}

\* a launcher call appends the strategy it tries to the log of the launch
Log(t, s) == launch_log' = [launch_log EXCEPT ![t] = Append(@, s)]

\* the launch is over: the launcher's locals are gone
EndLaunch(t) ==
    /\ loc' = [loc EXCEPT ![t] = NoLoc]
    /\ launch_log' = [launch_log EXCEPT ![t] = <<>>]

\* a launcher call that spawns nothing
VlcSpawnNothing(t) ==
    /\ loc' = [loc EXCEPT ![t].a = None, ![t].b = None]
    /\ Log(t, "vlc")
    /\ UNCHANGED globals
    /\ procs' = Reap(procs)

\* _start_vlc_player, lines 402-412: cvlc is spawned, the caller sleeps
VlcSpawn(t) ==
    LET P0 == ReapHeld(procs, Tracked \cup OtherLoc(t))
    IN  /\ FreeIds(P0) # {}
        /\ loc' = [loc EXCEPT ![t].a = NewId(P0), ![t].b = None]
        /\ Log(t, "vlc")
        /\ UNCHANGED globals
        /\ procs' = Reap(Popen(P0, "cvlc", t))

\* _start_vlc_player, line 414: cvlc_proc.poll() is None
VlcOk(t) == Alive(procs, loc[t].a)

(* ---- _pump_and_meter ---- *)
\* A pump thread is where it blocks: "prefill_read" and "relay_read" in
\* ffmpeg_proc.stdout.read(n), "relay_pause" in the sleep that ends a relay iteration,
\* "none" when the thread does not exist.  len is len(cache_buffer); late says that
\* time.time() has reached cache_timeout; pipe is what the pending read finds: "data"
\* (the n bytes asked for), "empty" (nothing yet: the read blocks while ffmpeg lives,
\* and returns what is left, fewer than n bytes, once ffmpeg has exited), "drained"
\* (end of file has been read: b'').  broken_pipe records, for a thread that has ended,
\* that BrokenPipeError ended it.
NoPump == [pc |-> "none", ff |-> None, ap |-> None, len |-> 0, late |-> FALSE,
           pipe |-> "empty", broken_pipe |-> FALSE]
PumpIds == DOMAIN pumps
FreePumps == {p \in PumpIds : pumps[p].pc = "none"}
Min(a, b) == IF a <= b THEN a ELSE b

\* line 544
playback_cache_bytes == playback_cache_secs * 44100 * 2 * 2

\* a write failure after which the pump goes on
OnBrokenPipeRetry(r) == [r EXCEPT !.pc = "relay_pause", !.pipe = "empty"]

\* lines 583-585 and 600-605: BrokenPipeError breaks the relay loop, the finally clause
\* closes aplay's stdin, the thread ends
OnBrokenPipe(r) == [NoPump EXCEPT !.broken_pipe = TRUE]

\* lines 578-582: the chunk is written to aplay's stdin and flushed; a dead aplay
\* breaks the pipe
WriteChunk(r, P) ==
    IF Alive(P, r.ap) THEN [r EXCEPT !.pc = "relay_pause"] ELSE OnBrokenPipe(r)

\* lines 567-573, from the loop test to the next blocking call: the relay loop ends and
\* the thread with it, or a chunk of the cache is written, or the stream is read
RelayIteration(r, f, P) ==
    IF f /\ Alive(P, r.ff) /\ Alive(P, r.ap)
    THEN IF r.len > 0
         THEN WriteChunk([r EXCEPT !.len = r.len - Min(chunk_size, r.len)], P)
         ELSE [r EXCEPT !.pc = "relay_read"]
    ELSE NoPump

\* lines 553-554, from the loop test to the next blocking call
PrefillIteration(r, f, P) ==
    IF r.len < playback_cache_bytes /\ f /\ ~r.late
    THEN [r EXCEPT !.pc = "prefill_read"]
    ELSE RelayIteration(r, f, P)

\* lines 614 and 541-553: the thread starts and runs to its first blocking call
PumpBegin(ff, ap, f, P) ==
    LET r == [NoPump EXCEPT !.ff = ff, !.ap = ap]
    IN  IF playback_cache_bytes > 0 THEN PrefillIteration(r, f, P) ELSE RelayIteration(r, f, P)

\* line 554: the number of bytes the pre-fill asks for
PrefillWants(r) == Min(chunk_size, playback_cache_bytes - r.len)

\* what a read of n bytes returns at end of file: nothing, or fewer than n bytes
ShortReads(r, n) == IF r.pipe = "drained" THEN {0} ELSE {0, n \div 2}

\* _start_ffmpeg_pipeline, lines 502-616: ffmpeg and aplay are spawned and tracked, the
\* pump thread is started
FfmpegSpawn(t) ==
    LET P0 == ReapHeld(procs, OtherLoc(t))
        P1 == Popen(P0, "ffmpeg", t)
        P2 == Popen(P1, "aplay", t)
    IN  /\ Cardinality(FreeIds(P0)) >= 2
        /\ PumpIds # {} => FreePumps # {}
        /\ decoder_process' = NewId(P0)
        /\ decoder_aplay_process' = NewId(P1)
        /\ loc' = [loc EXCEPT ![t].a = NewId(P0), ![t].b = NewId(P1)]
        /\ Log(t, "ffmpeg")
        /\ UNCHANGED decoder_should_run
        /\ pumps' = IF PumpIds = {} THEN pumps
                     ELSE [pumps EXCEPT ![MinOf(FreePumps)] =
                              PumpBegin(NewId(P0), NewId(P1), decoder_should_run, P2)]
        /\ procs' = Reap(P2)

\* _start_ffmpeg_pipeline, lines 618-639: neither ffmpeg_proc nor aplay_proc has exited
FfmpegOk(t) == Alive(procs, loc[t].a) /\ Alive(procs, loc[t].b)

\* _start_decoder_process, lines 153-155 and 168-215: the handles are cleared, then
\* mpg123 and aplay are spawned and tracked
Mpg123Spawn(t) ==
    LET P0 == ReapHeld(procs, OtherLoc(t))
        P1 == Popen(P0, "mpg123", t)
        P2 == Popen(P1, "aplay", t)
    IN  /\ Cardinality(FreeIds(P0)) >= 2
        /\ decoder_process' = NewId(P0)
        /\ decoder_aplay_process' = NewId(P1)
        /\ loc' = [loc EXCEPT ![t].a = None, ![t].b = None]
        /\ Log(t, "mpg123")
        /\ UNCHANGED decoder_should_run
        /\ procs' = Reap(P2)

\* _start_decoder_process, line 216: the check reads the globals
Mpg123Ok == Alive(procs, decoder_process) /\ Alive(procs, decoder_aplay_process)

(* ---- _decoder_supervisor_loop ---- *)
\* a loop that does not test the flag
LoopForever == TRUE

\* line 244: `while decoder_should_run:`
LoopCondition == decoder_should_run

\* the thread is at the loop test (at thread start, or a sleep has ended)
AtLoopTest == sup_pc \in {"start", "sleep_idle", "sleep_poll", "sleep_ok", "sleep_backoff"}

\* a success that leaves the backoff as the failures made it
SupSuccessKeepsBackoff ==
    /\ consecutive_failures' = 0
    /\ backoff' = backoff
    /\ sup_pc' = "sleep_ok"

\* lines 299-302: success
SupSuccess ==
    /\ consecutive_failures' = 0
    /\ backoff' = initial_backoff
    /\ sup_pc' = "sleep_ok"

\* a failure that ends the loop
SupFailureFatal ==
    /\ consecutive_failures' =
          IF consecutive_failures < MaxFailures THEN consecutive_failures + 1 ELSE MaxFailures
    /\ backoff' = NextBackoff(backoff)
    /\ sup_pc' = "done"

\* lines 303-307 and 314-317: failure, or an exception in the iteration
SupFailure ==
    /\ consecutive_failures' =
          IF consecutive_failures < MaxFailures THEN consecutive_failures + 1 ELSE MaxFailures
    /\ backoff' = NextBackoff(backoff)
    /\ sup_pc' = "sleep_backoff"

\* line 244: the loop condition is false; the function returns and its locals are gone
SupExit ==
    /\ AtLoopTest
    /\ stopped' = 0
    /\ UNCHANGED <<pumpVars, sideVars>>
    /\ ~LoopCondition
    /\ sup_pc' = "done"
    /\ consecutive_failures' = 0
    /\ backoff' = initial_backoff
    /\ UNCHANGED <<globals, procs, env, startVars, stopVars, launchVars>>

\* an iteration without URL that is counted as a failed launch
SupIdleCountsFailure ==
    /\ AtLoopTest
    /\ stopped' = 0
    /\ UNCHANGED <<pumpVars, sideVars>>
    /\ LoopCondition
    /\ status_url = ""
    /\ SupFailure
    /\ UNCHANGED <<globals, procs, env, startVars, stopVars, launchVars>>

\* lines 252-254: no URL configured
SupIdle ==
    /\ AtLoopTest
    /\ stopped' = 0
    /\ UNCHANGED <<pumpVars, sideVars>>
    /\ LoopCondition
    /\ status_url = ""
    /\ sup_pc' = "sleep_idle"
    /\ UNCHANGED <<globals, procs, env, backoff, consecutive_failures, startVars, stopVars, launchVars>>

\* lines 308-312: the pipeline is running
SupPollAlive ==
    /\ AtLoopTest
    /\ stopped' = 0
    /\ UNCHANGED <<pumpVars, sideVars>>
    /\ LoopCondition
    /\ status_url # ""
    /\ ProcessRunning
    /\ consecutive_failures' = 0
    /\ backoff' = initial_backoff
    /\ sup_pc' = "sleep_poll"
    /\ UNCHANGED <<globals, procs, env, startVars, stopVars, launchVars>>

\* lines 276-282: handles of exited processes are dropped
CleanStale ==
    /\ decoder_process' = IF Exited(procs, decoder_process) THEN None ELSE decoder_process
    /\ decoder_aplay_process' =
          IF Exited(procs, decoder_aplay_process) THEN None ELSE decoder_aplay_process
    /\ UNCHANGED decoder_should_run

\* lines 274-290: the pipeline is not running, a launch begins
SupDetectDead ==
    /\ AtLoopTest
    /\ stopped' = 0
    /\ UNCHANGED <<pumpVars, sideVars>>
    /\ LoopCondition
    /\ status_url # ""
    /\ ~ProcessRunning
    /\ CleanStale
    /\ sup_pc' = "try_vlc"
    /\ loc' = [loc EXCEPT !["sup"] = [NoLoc EXCEPT !.url = status_url]]
    /\ launch_log' = [launch_log EXCEPT !["sup"] = <<>>]
    /\ UNCHANGED <<env, backoff, consecutive_failures, startVars, stopVars>>
    /\ procs' = Reap(NewLaunch(procs, "sup"))

\* lines 287-289 raise (the stored bufferSecs is not a number): lines 314-317
SupIterationRaises ==
    /\ AtLoopTest
    /\ stopped' = 0
    /\ UNCHANGED <<pumpVars, sideVars>>
    /\ LoopCondition
    /\ status_url # ""
    /\ ~ProcessRunning
    /\ CleanStale
    /\ SupFailure
    /\ UNCHANGED <<env, startVars, stopVars, launchVars>>
    /\ procs' = Reap(procs)

\* line 292: _start_vlc_player is called
SupTryVlc ==
    /\ sup_pc = "try_vlc"
    /\ stopped' = 0
    /\ UNCHANGED <<pumpVars, sideVars>>
    /\ VlcSpawn("sup")
    /\ sup_pc' = "vlc_wait"
    /\ UNCHANGED <<env, backoff, consecutive_failures, startVars, stopVars>>

\* _start_vlc_player, lines 414-421, then lines 299-302
SupVlcStarted ==
    /\ sup_pc = "vlc_wait"
    /\ stopped' = 0
    /\ UNCHANGED <<pumpVars, sideVars>>
    /\ VlcOk("sup")
    /\ decoder_process' = loc["sup"].a
    /\ decoder_aplay_process' = None
    /\ SupSuccess
    /\ EndLaunch("sup")
    /\ UNCHANGED <<decoder_should_run, env, startVars, stopVars>>
    /\ procs' = Reap(procs)

\* _start_vlc_player, lines 422-430; line 294: _start_ffmpeg_pipeline is called
SupVlcFailed ==
    /\ sup_pc = "vlc_wait"
    /\ stopped' = 0
    /\ UNCHANGED <<playback_cache_secs, sideVars>>
    /\ ~VlcOk("sup")
    /\ FfmpegSpawn("sup")
    /\ sup_pc' = "ffmpeg_wait"
    /\ UNCHANGED <<env, backoff, consecutive_failures, startVars, stopVars>>

\* _start_ffmpeg_pipeline, line 639, then lines 299-302
SupFfmpegStarted ==
    /\ sup_pc = "ffmpeg_wait"
    /\ stopped' = 0
    /\ UNCHANGED <<pumpVars, sideVars>>
    /\ FfmpegOk("sup")
    /\ SupSuccess
    /\ EndLaunch("sup")
    /\ UNCHANGED <<globals, env, startVars, stopVars>>
    /\ procs' = Reap(procs)

\* _start_ffmpeg_pipeline, lines 619-637: a leg has exited; return False, nothing is
\* terminated; line 296: _start_decoder_process is called with an MP3-like URL
SupFfmpegFailedMp3 ==
    /\ sup_pc = "ffmpeg_wait"
    /\ stopped' = 0
    /\ UNCHANGED <<pumpVars, sideVars>>
    /\ ~FfmpegOk("sup")
    /\ is_mp3_like(loc["sup"].url)
    /\ Mpg123Spawn("sup")
    /\ sup_pc' = "mpg123_wait"
    /\ UNCHANGED <<env, backoff, consecutive_failures, startVars, stopVars>>

\* the same with a URL that is not MP3-like: _start_decoder_process clears the handles
\* (lines 153-155) and returns False (line 235); lines 303-307
SupFfmpegFailedOther ==
    /\ sup_pc = "ffmpeg_wait"
    /\ stopped' = 0
    /\ UNCHANGED <<pumpVars, sideVars>>
    /\ ~FfmpegOk("sup")
    /\ ~is_mp3_like(loc["sup"].url)
    /\ decoder_process' = None
    /\ decoder_aplay_process' = None
    /\ SupFailure
    /\ EndLaunch("sup")
    /\ UNCHANGED <<decoder_should_run, env, startVars, stopVars>>
    /\ procs' = Reap(procs)

\* _start_decoder_process, lines 216-217, then lines 299-302
SupMpg123Started ==
    /\ sup_pc = "mpg123_wait"
    /\ stopped' = 0
    /\ UNCHANGED <<pumpVars, sideVars>>
    /\ Mpg123Ok
    /\ SupSuccess
    /\ EndLaunch("sup")
    /\ UNCHANGED <<globals, env, startVars, stopVars>>
    /\ procs' = Reap(procs)

\* _start_decoder_process, lines 218-235: the running leg is terminated; return False
SupMpg123Failed ==
    /\ sup_pc = "mpg123_wait"
    /\ stopped' = 0
    /\ UNCHANGED <<pumpVars, sideVars>>
    /\ ~Mpg123Ok
    /\ SupFailure
    /\ EndLaunch("sup")
    /\ UNCHANGED <<globals, env, startVars, stopVars>>
    /\ procs' = Reap(Terminate(Terminate(procs, decoder_process), decoder_aplay_process))

Supervisor ==
    \/ SupExit \/ SupIdle \/ SupPollAlive \/ SupDetectDead \/ SupIterationRaises
    \/ SupTryVlc \/ SupVlcStarted \/ SupVlcFailed
    \/ SupFfmpegStarted \/ SupFfmpegFailedMp3 \/ SupFfmpegFailedOther
    \/ SupMpg123Started \/ SupMpg123Failed

(* ---- api_decoder_start ---- *)
\* the names api_decoder_start sweeps (line 1109: pkill -x cvlc)
StartSweepNames == {"cvlc"}

\* lines 1096-1112: something is running; it is stopped first
StartTeardown(u) ==
    /\ start_pc = "idle"
    /\ stopped' = 0
    /\ UNCHANGED <<pumpVars, sideVars>>
    /\ get_decoder_status
    /\ decoder_should_run' = FALSE
    /\ decoder_process' = None
    /\ decoder_aplay_process' = None
    /\ loc' = [loc EXCEPT !["start"] = [NoLoc EXCEPT !.url = u]]
    /\ start_pc' = "parse"
    /\ UNCHANGED <<env, supVars, stopVars, launch_log>>
    /\ procs' = Reap(Pkill(Terminate(Terminate(NewLaunch(procs, "start"), decoder_process),
                                     decoder_aplay_process), StartSweepNames))

\* line 1096: get_decoder_status() is false, nothing is stopped
StartNoTeardown(u) ==
    /\ start_pc = "idle"
    /\ stopped' = 0
    /\ UNCHANGED <<pumpVars, sideVars>>
    /\ ~get_decoder_status
    /\ loc' = [loc EXCEPT !["start"] = [NoLoc EXCEPT !.url = u]]
    /\ start_pc' = "parse"
    /\ UNCHANGED <<globals, env, supVars, stopVars, launch_log>>
    /\ procs' = Reap(NewLaunch(procs, "start"))

\* lines 1158-1159: no URL
StartRejectEmpty ==
    /\ start_pc = "parse"
    /\ stopped' = 0
    /\ UNCHANGED <<pumpVars, sideVars>>
    /\ loc["start"].url = ""
    /\ start_pc' = "respond_fail"
    /\ UNCHANGED <<globals, procs, env, supVars, stopVars, launchVars>>

\* a handler that gives up when the store cannot be written
StartPersistAborts(saved) ==
    /\ start_pc = "parse"
    /\ stopped' = 0
    /\ UNCHANGED <<pumpVars, sideVars>>
    /\ loc["start"].url # ""
    /\ decoder_process' = None
    /\ decoder_aplay_process' = None
    /\ decoder_should_run' = TRUE
    /\ status_url' = IF saved THEN loc["start"].url ELSE status_url
    /\ start_pc' = IF saved THEN "launch" ELSE "respond_fail"
    /\ UNCHANGED <<supVars, stopVars, launchVars>>
    /\ procs' = Reap(procs)

\* lines 1162-1258: the handles are cleared, decoder_should_run is set and the URL is
\* persisted (save_status may fail: the stored URL is then the old one)
StartPersist(saved) ==
    /\ start_pc = "parse"
    /\ stopped' = 0
    /\ UNCHANGED <<pumpVars, sideVars>>
    /\ loc["start"].url # ""
    /\ decoder_process' = None
    /\ decoder_aplay_process' = None
    /\ decoder_should_run' = TRUE
    /\ status_url' = IF saved THEN loc["start"].url ELSE status_url
    /\ start_pc' = "launch"
    /\ UNCHANGED <<supVars, stopVars, launchVars>>
    /\ procs' = Reap(procs)

\* lines 1444 and 1480: a tracked process that runs is verified, anything else is a failure
FinalPc(P, h) == IF Alive(P, h) THEN "verify" ELSE "respond_fail"

\* line 1262: decoder_process is not None (another thread has set it): nothing is launched
StartLaunchSkipped ==
    /\ start_pc = "launch"
    /\ stopped' = 0
    /\ UNCHANGED <<pumpVars, sideVars>>
    /\ decoder_process # None
    /\ start_pc' = FinalPc(procs, decoder_process)
    /\ UNCHANGED <<globals, procs, env, supVars, stopVars, launchVars>>

\* line 1263: _start_vlc_player is called
StartTryVlc ==
    /\ start_pc = "launch"
    /\ stopped' = 0
    /\ UNCHANGED <<pumpVars, sideVars>>
    /\ decoder_process = None
    /\ VlcSpawn("start")
    /\ start_pc' = "vlc_wait"
    /\ UNCHANGED <<env, supVars, stopVars>>

\* _start_vlc_player lines 414-421, then line 1265
StartVlcStarted ==
    /\ start_pc = "vlc_wait"
    /\ stopped' = 0
    /\ UNCHANGED <<pumpVars, sideVars>>
    /\ VlcOk("start")
    /\ decoder_process' = loc["start"].a
    /\ decoder_aplay_process' = None
    /\ loc' = [loc EXCEPT !["start"].a = None]
    /\ start_pc' = "post_vlc"
    /\ UNCHANGED <<decoder_should_run, env, supVars, stopVars, launch_log>>
    /\ procs' = Reap(procs)

\* _start_vlc_player lines 422-430, then lines 1266-1272: the error response
StartVlcFailed ==
    /\ start_pc = "vlc_wait"
    /\ stopped' = 0
    /\ UNCHANGED <<pumpVars, sideVars>>
    /\ ~VlcOk("start")
    /\ decoder_process' = None
    /\ loc' = [loc EXCEPT !["start"].a = None]
    /\ start_pc' = "respond_fail"
    /\ UNCHANGED <<decoder_should_run, decoder_aplay_process, env, supVars, stopVars, launch_log>>
    /\ procs' = Reap(procs)

\* lines 1278-1320: after VLC has started, mpg123 with direct ALSA output is spawned
StartMpgDirect ==
    LET P0 == ReapHeld(procs, Tracked \cup OtherLoc("start"))
    IN  /\ start_pc = "post_vlc"
        /\ stopped' = 0
        /\ UNCHANGED <<pumpVars, sideVars>>
        /\ FreeIds(P0) # {}
        /\ loc' = [loc EXCEPT !["start"].a = NewId(P0)]
        /\ start_pc' = "direct_wait"
        /\ Log("start", "mpg123_alsa")
        /\ UNCHANGED <<globals, env, supVars, stopVars>>
        /\ procs' = Reap(Popen(P0, "mpg123", "start"))

\* lines 1323-1326, 1374, 1444: it is running and becomes the tracked process
StartDirectStarted ==
    /\ start_pc = "direct_wait"
    /\ stopped' = 0
    /\ UNCHANGED <<pumpVars, sideVars>>
    /\ Alive(procs, loc["start"].a)
    /\ decoder_process' = loc["start"].a
    /\ decoder_aplay_process' = None
    /\ loc' = [loc EXCEPT !["start"].a = None]
    /\ start_pc' = "verify"
    /\ UNCHANGED <<decoder_should_run, env, supVars, stopVars, launch_log>>
    /\ procs' = Reap(procs)

\* lines 1327-1364: it has exited; mpg123 piped into aplay is spawned
StartDirectFailed ==
    LET P0 == ReapHeld(procs, {decoder_aplay_process} \cup OtherLoc("start"))
        P1 == Popen(P0, "mpg123", "start")
        P2 == Popen(P1, "aplay", "start")
    IN  /\ start_pc = "direct_wait"
        /\ stopped' = 0
        /\ UNCHANGED <<pumpVars, sideVars>>
        /\ ~Alive(procs, loc["start"].a)
        /\ Cardinality(FreeIds(P0)) >= 2
        /\ decoder_process' = None
        /\ loc' = [loc EXCEPT !["start"].a = NewId(P0), !["start"].b = NewId(P1)]
        /\ start_pc' = "pipe_wait"
        /\ Log("start", "mpg123")
        /\ UNCHANGED <<decoder_should_run, decoder_aplay_process, env, supVars, stopVars>>
        /\ procs' = Reap(P2)

\* lines 1365 and 1377-1380: does the piped pair run
PipeOk == Alive(procs, loc["start"].a) /\ Alive(procs, loc["start"].b)

\* lines 1365-1367, 1374, 1444: both legs run and become the tracked pipeline
StartPipeStarted ==
    /\ start_pc = "pipe_wait"
    /\ stopped' = 0
    /\ UNCHANGED <<pumpVars, sideVars>>
    /\ PipeOk
    /\ decoder_process' = loc["start"].a
    /\ decoder_aplay_process' = loc["start"].b
    /\ loc' = [loc EXCEPT !["start"].a = None, !["start"].b = None]
    /\ start_pc' = "verify"
    /\ UNCHANGED <<decoder_should_run, env, supVars, stopVars, launch_log>>
    /\ procs' = Reap(procs)

\* lines 1365, 1374-1387: a leg has exited; lines 1377-1380 terminate only legs that
\* have exited already, so a running leg stays; _start_vlc_player is called, unless
\* decoder_process is not None (another thread has set it): then line 1444 is next
StartPipeFailed ==
    /\ start_pc = "pipe_wait"
    /\ stopped' = 0
    /\ UNCHANGED <<pumpVars, sideVars>>
    /\ ~PipeOk
    /\ IF decoder_process = None
       THEN /\ VlcSpawn("start")
            /\ start_pc' = "fa_vlc_wait"
       ELSE /\ loc' = [loc EXCEPT !["start"].a = None, !["start"].b = None]
            /\ start_pc' = FinalPc(procs, decoder_process)
            /\ UNCHANGED <<globals, launch_log>>
            /\ procs' = Reap(procs)
    /\ UNCHANGED <<env, supVars, stopVars>>

\* _start_vlc_player lines 414-421, lines 1388-1389, 1421, 1444
StartFaVlcStarted ==
    /\ start_pc = "fa_vlc_wait"
    /\ stopped' = 0
    /\ UNCHANGED <<pumpVars, sideVars>>
    /\ VlcOk("start")
    /\ decoder_process' = loc["start"].a
    /\ decoder_aplay_process' = None
    /\ loc' = [loc EXCEPT !["start"].a = None, !["start"].b = None]
    /\ start_pc' = "verify"
    /\ UNCHANGED <<decoder_should_run, env, supVars, stopVars, launch_log>>
    /\ procs' = Reap(procs)

\* _start_vlc_player lines 422-430; line 1391: _start_ffmpeg_pipeline is called
StartFaVlcFailed ==
    /\ start_pc = "fa_vlc_wait"
    /\ stopped' = 0
    /\ UNCHANGED <<playback_cache_secs, sideVars>>
    /\ ~VlcOk("start")
    /\ FfmpegSpawn("start")
    /\ start_pc' = "fb_ffmpeg_wait"
    /\ UNCHANGED <<env, supVars, stopVars>>

\* lines 1421-1430: mpg123 with Pulse output is spawned into decoder_process
PulseSpawn ==
    LET P0 == ReapHeld(procs, {decoder_aplay_process} \cup OtherLoc("start"))
    IN  /\ FreeIds(P0) # {}
        /\ decoder_process' = NewId(P0)
        /\ loc' = [loc EXCEPT !["start"].a = None, !["start"].b = None]
        /\ start_pc' = "pulse_wait"
        /\ Log("start", "mpg123_pulse")
        /\ UNCHANGED <<decoder_should_run, decoder_aplay_process>>
        /\ procs' = Reap(Popen(P0, "mpg123", "start"))

\* _start_ffmpeg_pipeline line 639, lines 1392-1393, 1421, 1444; when another thread
\* has cleared decoder_process, line 1421 finds None and the Pulse fallback runs
StartFbFfmpegStarted ==
    /\ start_pc = "fb_ffmpeg_wait"
    /\ stopped' = 0
    /\ UNCHANGED <<pumpVars, sideVars>>
    /\ FfmpegOk("start")
    /\ IF decoder_process # None
       THEN /\ loc' = [loc EXCEPT !["start"].a = None, !["start"].b = None]
            /\ start_pc' = FinalPc(procs, decoder_process)
            /\ UNCHANGED <<globals, launch_log>>
            /\ procs' = Reap(procs)
       ELSE PulseSpawn
    /\ UNCHANGED <<env, supVars, stopVars>>

\* _start_ffmpeg_pipeline lines 619-637; lines 1394-1408: cvlc is spawned directly
StartFbFfmpegFailed ==
    LET P0 == ReapHeld(procs, Tracked \cup OtherLoc("start"))
    IN  /\ start_pc = "fb_ffmpeg_wait"
        /\ stopped' = 0
        /\ UNCHANGED <<pumpVars, sideVars>>
        /\ ~FfmpegOk("start")
        /\ FreeIds(P0) # {}
        /\ loc' = [loc EXCEPT !["start"].a = NewId(P0), !["start"].b = None]
        /\ start_pc' = "fc_cvlc_wait"
        /\ Log("start", "cvlc")
        /\ UNCHANGED <<globals, env, supVars, stopVars>>
        /\ procs' = Reap(Popen(P0, "cvlc", "start"))

\* lines 1409-1411, 1421, 1444
StartFcCvlcStarted ==
    /\ start_pc = "fc_cvlc_wait"
    /\ stopped' = 0
    /\ UNCHANGED <<pumpVars, sideVars>>
    /\ Alive(procs, loc["start"].a)
    /\ decoder_process' = loc["start"].a
    /\ decoder_aplay_process' = None
    /\ loc' = [loc EXCEPT !["start"].a = None]
    /\ start_pc' = "verify"
    /\ UNCHANGED <<decoder_should_run, env, supVars, stopVars, launch_log>>
    /\ procs' = Reap(procs)

\* lines 1412-1430: it has exited; decoder_process is None and the Pulse fallback runs
StartFcCvlcFailed ==
    /\ start_pc = "fc_cvlc_wait"
    /\ stopped' = 0
    /\ UNCHANGED <<pumpVars, sideVars>>
    /\ ~Alive(procs, loc["start"].a)
    /\ PulseSpawn
    /\ UNCHANGED <<env, supVars, stopVars>>

\* lines 1431-1437, 1444: an exited process (or a handle another thread has cleared)
\* gives None
StartPulseDone ==
    /\ start_pc = "pulse_wait"
    /\ stopped' = 0
    /\ UNCHANGED <<pumpVars, sideVars>>
    /\ decoder_process' = IF Alive(procs, decoder_process) THEN decoder_process ELSE None
    /\ start_pc' = FinalPc(procs, decoder_process)
    /\ UNCHANGED <<decoder_should_run, decoder_aplay_process, env, supVars, stopVars, launchVars>>
    /\ procs' = Reap(procs)

\* lines 1481-1482
StartVerifyOk ==
    /\ start_pc = "verify"
    /\ stopped' = 0
    /\ UNCHANGED <<pumpVars, sideVars>>
    /\ get_decoder_status
    /\ start_pc' = "respond_ok"
    /\ UNCHANGED <<globals, procs, env, supVars, stopVars, launchVars>>

\* lines 1483-1485
StartVerifyWait ==
    /\ start_pc = "verify"
    /\ stopped' = 0
    /\ UNCHANGED <<pumpVars, sideVars>>
    /\ ~get_decoder_status
    /\ start_pc' = "verify2"
    /\ UNCHANGED <<globals, procs, env, supVars, stopVars, launchVars>>

\* lines 1486-1491
StartVerifyAgain ==
    /\ start_pc = "verify2"
    /\ stopped' = 0
    /\ UNCHANGED <<pumpVars, sideVars>>
    /\ start_pc' = IF get_decoder_status THEN "respond_ok" ELSE "respond_fail"
    /\ UNCHANGED <<globals, procs, env, supVars, stopVars, launchVars>>

\* the response has been sent; the handler's locals are gone
StartReturn ==
    /\ start_pc \in {"respond_ok", "respond_fail"}
    /\ stopped' = 0
    /\ UNCHANGED <<pumpVars, sideVars>>
    /\ start_pc' = "idle"
    /\ EndLaunch("start")
    /\ UNCHANGED <<globals, env, supVars, stopVars>>
    /\ procs' = Reap(procs)

StartHandler ==
    \/ \E u \in Urls : StartTeardown(u) \/ StartNoTeardown(u)
    \/ StartRejectEmpty
    \/ \E saved \in BOOLEAN : StartPersist(saved)
    \/ StartLaunchSkipped \/ StartTryVlc \/ StartVlcStarted \/ StartVlcFailed
    \/ StartMpgDirect \/ StartDirectStarted \/ StartDirectFailed
    \/ StartPipeStarted \/ StartPipeFailed
    \/ StartFaVlcStarted \/ StartFaVlcFailed
    \/ StartFbFfmpegStarted \/ StartFbFfmpegFailed
    \/ StartFcCvlcStarted \/ StartFcCvlcFailed
    \/ StartPulseDone
    \/ StartVerifyOk \/ StartVerifyWait \/ StartVerifyAgain
    \/ StartReturn

(* ---- api_decoder_stop ---- *)
\* a sweep of one name only
SweepCvlcOnly == {"cvlc"}

\* the names api_decoder_stop sweeps (lines 1561-1571)
StopSweepNames == {"mpg123", "aplay", "cvlc", "ffmpeg"}

\* a stop that handles decoder_aplay_process only when decoder_process is None
StopTrackedElif(P, dp, dap) ==
    IF dp # None
    THEN [dp |-> None, dap |-> dap, procs |-> Terminate(P, dp)]
    ELSE [dp |-> None, dap |-> None, procs |-> Terminate(P, dap)]

\* lines 1550-1556: each tracked handle is terminated and dropped
StopTracked(P, dp, dap) ==
    [dp |-> None, dap |-> None, procs |-> Terminate(Terminate(P, dp), dap)]

\* a stop that also puts the supervisor's backoff and failure count back
StopBeginResetsBackoff ==
    LET r == StopTracked(procs, decoder_process, decoder_aplay_process)
    IN  /\ stop_pc = "idle"
        /\ decoder_should_run' = FALSE
        /\ decoder_process' = r.dp
        /\ decoder_aplay_process' = r.dap
        /\ stop_pc' = "sleep"
        /\ stopped' = IF stopped < 2 THEN stopped + 1 ELSE stopped
        /\ UNCHANGED <<pumpVars, sideVars>>
        /\ backoff' = initial_backoff
        /\ consecutive_failures' = 0
        /\ UNCHANGED <<env, sup_pc, startVars, launchVars>>
        /\ procs' = Reap(Pkill(r.procs, StopSweepNames))

\* lines 1546-1572: the flag is cleared, the tracked handles are terminated and
\* dropped, the backend names are swept
StopBegin ==
    LET r == StopTracked(procs, decoder_process, decoder_aplay_process)
    IN  /\ stop_pc = "idle"
        /\ decoder_should_run' = FALSE
        /\ decoder_process' = r.dp
        /\ decoder_aplay_process' = r.dap
        /\ stop_pc' = "sleep"
        /\ stopped' = IF stopped < 2 THEN stopped + 1 ELSE stopped
        /\ UNCHANGED <<pumpVars, sideVars>>
        /\ UNCHANGED <<env, supVars, startVars, launchVars>>
        /\ procs' = Reap(Pkill(r.procs, StopSweepNames))

\* lines 1574-1577: the response
StopReturn ==
    /\ stop_pc = "sleep"
    /\ stop_pc' = "idle"
    /\ UNCHANGED <<globals, procs, env, supVars, startVars, launchVars, stopped, pumpVars, sideVars>>

StopHandler == StopBegin \/ StopReturn

(* ---- the steps of a pump thread ---- *)
PumpFrame ==
    /\ stopped' = 0
    /\ UNCHANGED <<globals, env, supVars, startVars, stopVars, launchVars, playback_cache_secs,
                   sideVars>>
    /\ procs' = Reap(procs)

\* ffmpeg writes the bytes the pending read waits for
DecodeDelivers(p) ==
    /\ pumps[p].pc \in {"prefill_read", "relay_read"}
    /\ pumps[p].pipe = "empty"
    /\ Alive(procs, pumps[p].ff)
    /\ pumps' = [pumps EXCEPT ![p].pipe = "data"]
    /\ PumpFrame

\* line 552: ten seconds have passed since the pre-fill began
PumpDeadline(p) ==
    /\ pumps[p].pc = "prefill_read"
    /\ ~pumps[p].late
    /\ pumps' = [pumps EXCEPT ![p].late = TRUE]
    /\ PumpFrame

\* a blocked read returns when its bytes are there or ffmpeg has exited
ReadReturns(r, P) == r.pipe = "data" \/ Exited(P, r.ff)

\* lines 554-561: the read returns the bytes asked for, they are appended
PrefillReadData(p) ==
    LET r == pumps[p]
    IN  /\ r.pc = "prefill_read"
        /\ r.pipe = "data"
        /\ pumps' = [pumps EXCEPT ![p] =
              PrefillIteration([r EXCEPT !.len = r.len + PrefillWants(r), !.pipe = "empty"],
                               decoder_should_run, procs)]
        /\ PumpFrame

\* lines 554-561 at end of file: b'' and an exited ffmpeg break the loop, a last short
\* block is appended
PrefillReadEof(p, k) ==
    LET r == pumps[p]
    IN  /\ r.pc = "prefill_read"
        /\ r.pipe # "data"
        /\ Exited(procs, r.ff)
        /\ pumps' = [pumps EXCEPT ![p] =
              IF k = 0
              THEN RelayIteration(r, decoder_should_run, procs)
              ELSE PrefillIteration([r EXCEPT !.len = r.len + k, !.pipe = "drained"],
                                    decoder_should_run, procs)]
        /\ PumpFrame

\* lines 582 and 575: the sleep that ends a relay iteration is over
RelayPauseEnds(p) ==
    /\ pumps[p].pc = "relay_pause"
    /\ pumps' = [pumps EXCEPT ![p] = RelayIteration(pumps[p], decoder_should_run, procs)]
    /\ PumpFrame

\* lines 572 and 578-585: the read returns a chunk, which is written to aplay
RelayReadData(p) ==
    LET r == pumps[p]
    IN  /\ r.pc = "relay_read"
        /\ r.pipe = "data"
        /\ pumps' = [pumps EXCEPT ![p] = WriteChunk([r EXCEPT !.pipe = "empty"], procs)]
        /\ PumpFrame

\* lines 572-585 at end of file: b'' is slept over, a last short block is written
RelayReadEof(p, k) ==
    LET r == pumps[p]
    IN  /\ r.pc = "relay_read"
        /\ r.pipe # "data"
        /\ Exited(procs, r.ff)
        /\ pumps' = [pumps EXCEPT ![p] =
              IF k = 0
              THEN [r EXCEPT !.pc = "relay_pause", !.pipe = "drained"]
              ELSE WriteChunk([r EXCEPT !.pipe = "drained"], procs)]
        /\ PumpFrame

\* lines 551-565: the pre-fill
PrefillThread(p) ==
    \/ PrefillReadData(p)
    \/ \E k \in ShortReads(pumps[p], PrefillWants(pumps[p])) : PrefillReadEof(p, k)

\* lines 567-605: the relay loop
RelayThread(p) ==
    \/ RelayPauseEnds(p)
    \/ RelayReadData(p)
    \/ \E k \in ShortReads(pumps[p], chunk_size) : RelayReadEof(p, k)

Next ==
    \/ Supervisor
    \/ StartHandler
    \/ StopHandler
    \/ \E i \in ProcIds : ProcExit(i)

Spec == Init /\ [][Next]_vars

(* ---- the supervisor with the pump threads ---- *)
\* a start request has set the flag and stored the URL before the supervisor thread's
\* first loop test, none of its backends stayed; the pump threads are followed, in a
\* table of np process slots, nu pump threads, the stored playbackCacheSecs in S
InitWithPumps(np, nu, S) ==
    /\ MeterAtStart("hw:1,0", "hw:1,0")
    /\ ThreadsAtStart
    /\ RequestAtStart
    /\ decoder_should_run = TRUE
    /\ decoder_process = None
    /\ decoder_aplay_process = None
    /\ procs = [i \in 1..np |-> Free]
    /\ status_url \in Urls
    /\ sup_pc = "start"
    /\ backoff = initial_backoff
    /\ consecutive_failures = 0
    /\ start_pc = "idle"
    /\ stop_pc = "idle"
    /\ loc = [t \in Threads |-> NoLoc]
    /\ launch_log = [t \in Threads |-> <<>>]
    /\ stopped = 0
    /\ pumps = [p \in 1..nu |-> NoPump]
    /\ playback_cache_secs \in S

\* one ffmpeg pipeline at a time, its pump thread from the pre-fill on
PumpInit == InitWithPumps(MaxProc, 1, 0..MaxCacheSecs)

PumpNext ==
    \/ Supervisor
    \/ StopHandler
    \/ \E i \in ProcIds : ProcExit(i)
    \/ \E p \in PumpIds : PrefillThread(p) \/ RelayThread(p) \/ DecodeDelivers(p) \/ PumpDeadline(p)

PumpSpec == PumpInit /\ [][PumpNext]_vars

\* successive ffmpeg pipelines and their pump threads, without a pre-fill
\* (playbackCacheSecs = 0)
RelaunchInit == InitWithPumps(MaxPumpProc, MaxPump, {0})

RelaunchNext ==
    \/ Supervisor
    \/ StopHandler
    \/ \E i \in ProcIds : ProcExit(i)
    \/ \E p \in PumpIds : RelayThread(p) \/ DecodeDelivers(p)

RelaunchSpec == RelaunchInit /\ [][RelaunchNext]_vars

(* ---- the resolution of the ALSA devices ---- *)
\* the sound cards `aplay -l` and `arecord -l` can list
CardIds == {0, 1, 2}
\* a line of a listing: the header line or the line of a card ("card N: ..."), with the
\* letters "usb" in it or not. No line that aplay or arecord prints holds a backslash.
HeaderLine == [kind |-> "header", index |-> 0, usb |-> FALSE]
CardLine(n, u) == [kind |-> "card", index |-> n, usb |-> u]
\* the listing of the cards c[n] # "none", in the order of their numbers
ListingOf(c) ==
    LET from[n \in 0..3] ==
            IF n = 3 THEN <<>>
            ELSE (IF c[n] = "none" THEN <<>> ELSE <<CardLine(n, c[n] = "usb")>>) \o from[n + 1]
    IN  <<HeaderLine>> \o from[0]
\* what subprocess.run([aplay, '-l']) gives: a failure, or returncode 0 and a listing
Listings ==
    {[ok |-> FALSE, lines |-> <<>>]}
        \cup {[ok |-> TRUE, lines |-> ListingOf(c)] : c \in [CardIds -> {"none", "plain", "usb"}]}

\* device names
NoDevice == [name |-> "", card |-> 0]
DefaultDevice == [name |-> "default", card |-> 0]
Plughw(n) == [name |-> "plughw", card |-> n]
\* 'hw:N,0'
Hw == [n \in CardIds |-> IF n = 0 THEN "hw:0,0" ELSE IF n = 1 THEN "hw:1,0" ELSE "hw:2,0"]

\* the index of the first line of L that satisfies Q, 0 if there is none
FirstLine(L, Q(_)) ==
    IF \E k \in 1..Len(L) : Q(L[k])
    THEN CHOOSE k \in 1..Len(L) : Q(L[k]) /\ \A j \in 1..(k - 1) : ~Q(L[j])
    ELSE 0

\* line 1203: 'card' in lower and 'usb' in lower
IsUsbCardLine(l) == l.kind = "card" /\ l.usb
\* line 1214: line.strip().startswith('card ')
IsCardLine(l) == l.kind = "card"

\* lines 1627, 1633, 1649 and 1655: re.search(r'card\\s+(\\d+)', line). In a raw string
\* the doubled backslashes stand for a backslash each: the pattern asks for the letters
\* "card", a backslash, one or more "s", a backslash and one or more "d". It finds
\* nothing in a line without a backslash.
PatternInSource(l) == l.kind = "escaped"

\* api_decoder_start, lines 1190-1223: choose_output_device_fallback()
choose_output_device_fallback(e) ==
    LET usb == FirstLine(e.lines, IsUsbCardLine)
        any == FirstLine(e.lines, IsCardLine)
    IN  IF ~e.ok THEN DefaultDevice
        ELSE IF usb # 0 THEN Plughw(e.lines[usb].index)
        ELSE IF any # 0 THEN Plughw(e.lines[any].index)
        ELSE DefaultDevice

\* the card _detect_default_devices finds in a listing (lines 1621-1636 and 1643-1658):
\* <<>> for None
DetectedCard(e) ==
    LET UsbHit(l) == IsCardLine(l) /\ l.usb /\ PatternInSource(l)
        usb == FirstLine(e.lines, UsbHit)
        any == FirstLine(e.lines, PatternInSource)
    IN  IF ~e.ok THEN <<>>
        ELSE IF usb # 0 THEN <<e.lines[usb].index>>
        ELSE IF any # 0 THEN <<e.lines[any].index>>
        ELSE <<>>

\* lines 1605-1665: _detect_default_devices(), for the listings of arecord and of aplay
detect_default_devices(rec, play) ==
    [input |-> IF DetectedCard(rec) = <<>> THEN "hw:1,0" ELSE Hw[DetectedCard(rec)[1]],
     output |-> IF DetectedCard(play) = <<>> THEN DefaultDevice
                ELSE Plughw(DetectedCard(play)[1])]

\* the input devices _detect_default_devices can report
DetectedInputs == {detect_default_devices(rec, rec).input : rec \in Listings}

\* the devices a request can carry, and the store can hold: none, or a card of its own
GivenDevices == {NoDevice, [name |-> "plughw", card |-> 5]}

\* before the first launch: the enumerator gives e, the store holds the device d
DevicesStart(e, d) ==
    [aplay_l |-> e,
     outputDevice |-> d,
     output_device |-> [t \in Threads |-> [device |-> NoDevice, resolved |-> FALSE]]]

DeviceFrame ==
    /\ stopped' = 0
    /\ UNCHANGED <<globals, procs, env, supVars, startVars, stopVars, launchVars, pumpVars,
                   meterVars, queryVars, requestVars, relay, capture>>

\* api_decoder_start, lines 1116, 1232-1233 and 1257-1258: the request's device is
\* stored (save_status may fail) and used; without one the handler resolves a device
DeviceStart(given, saved) ==
    /\ start_pc = "idle"
    /\ devices' = [devices EXCEPT
          !.outputDevice = IF given # NoDevice /\ saved THEN given ELSE @,
          !.output_device["start"] =
              IF given # NoDevice
              THEN [device |-> given, resolved |-> FALSE]
              ELSE [device |-> choose_output_device_fallback(devices.aplay_l),
                    resolved |-> TRUE]]
    /\ DeviceFrame

\* _decoder_supervisor_loop, line 249 and 292: the stored device, else the detected one
DeviceSupLaunch ==
    /\ AtLoopTest
    /\ LoopCondition
    /\ status_url # ""
    /\ ~ProcessRunning
    /\ devices' = [devices EXCEPT
          !.output_device["sup"] =
              IF devices.outputDevice # NoDevice
              THEN [device |-> devices.outputDevice, resolved |-> FALSE]
              ELSE [device |-> detect_default_devices(devices.aplay_l, devices.aplay_l).output,
                    resolved |-> TRUE]]
    /\ DeviceFrame

DeviceInit ==
    /\ MeterAtStart("hw:1,0", "hw:1,0")
    /\ RequestAtStart
    /\ decoder_should_run = TRUE
    /\ decoder_process = None
    /\ decoder_aplay_process = None
    /\ procs = [i \in 1..MaxProc |-> Free]
    /\ status_url = "mp3"
    /\ sup_pc = "start"
    /\ backoff = initial_backoff
    /\ consecutive_failures = 0
    /\ start_pc = "idle"
    /\ stop_pc = "idle"
    /\ loc = [t \in Threads |-> NoLoc]
    /\ launch_log = [t \in Threads |-> <<>>]
    /\ stopped = 0
    /\ pumps = <<>>
    /\ playback_cache_secs = 0
    /\ relay = <<>>
    /\ capture = <<>>
    /\ \E e \in Listings, d \in GivenDevices : devices = DevicesStart(e, d)

DeviceNext ==
    \/ \E given \in GivenDevices, saved \in BOOLEAN : DeviceStart(given, saved)
    \/ DeviceSupLaunch

DeviceSpec == DeviceInit /\ [][DeviceNext]_vars

(* ---- read_audio_levels ---- *)
\* counters are kept up to MaxCount
Bump(c) == IF c < MaxCount THEN c + 1 ELSE MaxCount

\* lines 721-731: after the counters ec, rc have been raised, the fallback device is
\* taken when a limit is reached and the detected device is another one
Fallback(ec, rc) ==
    IF (ec >= empty_limit \/ rc >= error_limit) /\ detected_input # device_in_use
    THEN [dev |-> detected_input, empty |-> 0, error |-> 0]
    ELSE [dev |-> device_in_use, empty |-> ec, error |-> rc]

(* ---- the level of a chunk (lines 735-755) ---- *)
Abs(x) == IF x < 0 THEN -x ELSE x

\* line 742: left_samples, the samples at the even indices (from 0)
LeftSamples(c) == [k \in 1..((Len(c) + 1) \div 2) |-> Abs(c[2 * k - 1])]
\* line 743: right_samples, the samples at the odd indices
RightSamples(c) == [k \in 1..(Len(c) \div 2) |-> Abs(c[2 * k])]

RECURSIVE SumOver(_, _, _)
\* the sum of f(xs[k] * xs[k]) over k in 1..j
SumOver(xs, j, n) ==
    IF j = 0 THEN [q |-> 0, r |-> 0]
    ELSE LET t == SumOver(xs, j - 1, n)
             sq == xs[j] * xs[j]
         IN  [q |-> t.q + (sq \div n), r |-> t.r + (sq % n)]

\* sum(x*x for x in xs) / len(xs), rounded down (the quotients and the remainders are
\* summed apart, so that the sum stays within the integers of the checker)
MeanSquare(xs) ==
    LET t == SumOver(xs, Len(xs), Len(xs)) IN t.q + (t.r \div Len(xs))

RECURSIVE RootBetween(_, _, _)
\* the largest r in lo..hi with r * r <= m
RootBetween(m, lo, hi) ==
    IF lo >= hi THEN lo
    ELSE LET mid == (lo + hi + 1) \div 2
         IN  IF mid * mid <= m THEN RootBetween(m, mid, hi) ELSE RootBetween(m, lo, mid - 1)

\* a level that is the mean square itself
NoRoot(m) == m

\* ( ... ) ** 0.5, rounded down
Root(m) == RootBetween(m, 0, FullScale)

\* lines 745-755: the level of one channel
ChannelLevel(xs) ==
    IF Len(xs) > 0 THEN Min(Root(MeanSquare(xs)), FullScale) ELSE 0

\* lines 742-755
Levels(c) == [left |-> ChannelLevel(LeftSamples(c)), right |-> ChannelLevel(RightSamples(c))]

\* the chunks a successful read delivers: at least 4 bytes (line 717)
PcmChunks == UNION {[1..n -> SampleValues] : n \in 2..MaxSamples}
\* the shortest of them: one sample for each channel
ShortChunks == {c \in PcmChunks : Len(c) = 2}

MeterFrame ==
    /\ stopped' = 0
    /\ UNCHANGED <<globals, procs, env, supVars, startVars, stopVars, launchVars, pumpVars,
                   queryVars, requestVars, threadVars>>

\* lines 716-733: arecord exits with a non-zero code
MeterNonZero ==
    LET r == Fallback(Bump(empty_count), Bump(error_count))
    IN  /\ meter' = KeptMeter([TheMeter EXCEPT
              !.device_in_use = r.dev,
              !.empty_count = r.empty,
              !.error_count = r.error,
              !.empty_run = 0,
              !.hard_run = Bump(hard_run),
              !.samples = <<>>])
        /\ MeterFrame

\* lines 716-733: arecord exits with 0 and fewer than 4 bytes
MeterEmpty ==
    LET r == Fallback(Bump(empty_count), error_count)
    IN  /\ meter' = KeptMeter([TheMeter EXCEPT
              !.device_in_use = r.dev,
              !.empty_count = r.empty,
              !.error_count = r.error,
              !.empty_run = Bump(empty_run),
              !.hard_run = 0,
              !.samples = <<>>])
        /\ MeterFrame

\* lines 735-763: samples are read, the levels are set, the counters are reset
MeterOk(c) ==
    /\ meter' = KeptMeter([TheMeter EXCEPT
          !.samples = c,
          !.audio_levels = Levels(c),
          !.empty_count = 0,
          !.error_count = 0,
          !.empty_run = 0,
          !.hard_run = 0])
    /\ MeterFrame

\* lines 736 and 760-761: the read delivers an odd number of bytes, array.array raises,
\* the levels are zeroed, the counters stay
MeterOddBytes ==
    /\ meter' = KeptMeter([TheMeter EXCEPT
          !.samples = <<>>,
          !.audio_levels = ZeroLevels,
          !.empty_run = 0,
          !.hard_run = Bump(hard_run)])
    /\ MeterFrame

\* lines 765-768: subprocess.run times out or raises
MeterRaises ==
    /\ meter' = KeptMeter([TheMeter EXCEPT
          !.error_count = Bump(error_count),
          !.empty_run = 0,
          !.hard_run = Bump(hard_run),
          !.samples = <<>>,
          !.audio_levels = ZeroLevels])
    /\ MeterFrame

\* the capture meter thread alone: the decoder is idle, the meter starts on either
\* device, the detected device is one that _detect_default_devices can report
MeterInit ==
    /\ \E d \in Devices, f \in DetectedInputs : MeterAtStart(d, f)
    /\ ThreadsAtStart
    /\ RequestAtStart
    /\ decoder_should_run = FALSE
    /\ decoder_process = None
    /\ decoder_aplay_process = None
    /\ procs = [i \in 1..MaxProc |-> Free]
    /\ status_url = ""
    /\ sup_pc = "done"
    /\ backoff = initial_backoff
    /\ consecutive_failures = 0
    /\ start_pc = "idle"
    /\ stop_pc = "idle"
    /\ loc = [t \in Threads |-> NoLoc]
    /\ launch_log = [t \in Threads |-> <<>>]
    /\ stopped = 0
    /\ pumps = <<>>
    /\ playback_cache_secs = 0

MeterNext ==
    \/ MeterNonZero
    \/ MeterEmpty
    \/ \E c \in ShortChunks : MeterOk(c)
    \/ MeterOddBytes
    \/ MeterRaises

MeterSpec == MeterInit /\ [][MeterNext]_vars

\* the level computation alone: every read succeeds, with any chunk
LevelNext == \E c \in PcmChunks : MeterOk(c)

LevelSpec == MeterInit /\ [][LevelNext]_vars

(* ---- the status queries ---- *)
\* a query that drops the handles of exited processes
QueryDropsExited ==
    /\ decoder_process' = IF Exited(procs, decoder_process) THEN None ELSE decoder_process
    /\ decoder_aplay_process' =
          IF Exited(procs, decoder_aplay_process) THEN None ELSE decoder_aplay_process
    /\ UNCHANGED decoder_should_run

\* get_decoder_status, api_status, api_audio_levels assign no global
QueryKeepsGlobals == UNCHANGED globals

\* api_status (lines 983-992) and api_audio_levels (lines 1962-1965): the answer is
\* built from get_decoder_status() and audio_levels
StatusQuery ==
    /\ status_reply' = [decoder |-> get_decoder_status, audioLevels |-> audio_levels]
    /\ QueryKeepsGlobals
    /\ UNCHANGED <<procs, env, supVars, startVars, stopVars, launchVars, stopped, pumpVars,
                   meterVars, requestVars, threadVars>>

\* the chunks read by the capture meter while the queries are followed
QueryChunks == {c \in ShortChunks : c[1] = c[2] /\ c[1] \in {0, 32767}}

\* status queries beside the supervisor, a stop request, the pump thread and the
\* capture meter
QueryInit == InitWithPumps(MaxProc, 1, {0})

QueryNext ==
    \/ StatusQuery
    \/ Supervisor
    \/ StopHandler
    \/ \E i \in ProcIds : ProcExit(i)
    \/ \E p \in PumpIds : RelayThread(p) \/ DecodeDelivers(p)
    \/ \E c \in QueryChunks : MeterOk(c)

QuerySpec == QueryInit /\ [][QueryNext]_vars

(* ---- api_decoder_start: the answer to a failed start ---- *)
\* lines 1333 and 1414: [:200] of a backend's stderr; lines 1471-1475: last_error[:200]
detail_limit == 200
\* line 1462: connection_errors
connection_errors == {"connection", "resolve", "network", "timeout", "refused"}
\* line 1466: device_errors
device_errors == {"driver", "out123", "alsa", "device", "no such file"}

\* the keywords of the messages the backends and exceptions give here: none, a device
\* word, a connection word, both
StderrWords == {{}, {"alsa"}, {"refused"}, {"device", "timeout"}}
\* their lengths: shorter than the limit, longer
StderrLens == {40, detail_limit + 30}
\* what a backend writes to stderr, or str(e) of an exception (keywords in the part
\* that [:200] keeps)
StderrTexts == {[err |-> W, pre |-> {}, len |-> n, cut |-> FALSE] :
                   W \in StderrWords, n \in StderrLens}

\* s[:n]
Truncate(t, n) == IF t.len > n THEN [t EXCEPT !.len = n, !.cut = TRUE] ELSE t
\* f'<n characters holding the keywords W>{t}'
Prefix(n, W, t) == [t EXCEPT !.pre = t.pre \cup W, !.len = t.len + n]
\* any(w in t.lower() for w in W)
Contains(t, W) == (t.err \cup t.pre) \cap W # {}
\* " | ".join of the parts that are not empty
Join(a, b) ==
    IF a = EmptyText THEN b
    ELSE IF b = EmptyText THEN a
    ELSE [err |-> a.err \cup b.err, pre |-> a.pre \cup b.pre, len |-> a.len + 3 + b.len,
          cut |-> a.cut \/ b.cut]

\* lines 1445-1477: the answer when no process runs after all strategies; e is
\* last_error, pe the stderr of a tracked process that has exited (empty: none)
FailureReply(e, pe) ==
    IF Contains(e, connection_errors)
    THEN [success |-> FALSE, code |-> 200, msg |-> "connection",
          details |-> Truncate(e, detail_limit)]
    ELSE IF Contains(e, device_errors)
    THEN [success |-> FALSE, code |-> 200, msg |-> "device",
          details |-> Truncate(e, detail_limit)]
    ELSE [success |-> FALSE, code |-> 200, msg |-> "generic",
          details |-> Join(IF e = EmptyText THEN EmptyText
                           ELSE Prefix(7, {}, Truncate(e, detail_limit)),
                           IF pe = EmptyText THEN EmptyText
                           ELSE Prefix(15, {}, Truncate(pe, 300)))]

\* lines 1269-1272: the answer when _start_vlc_player returns False
VlcRequiredReply == [success |-> FALSE, code |-> 500, msg |-> "vlc_required",
                     details |-> EmptyText]

\* what the steps of the answer's bookkeeping leave alone: the backends' outcomes are
\* their inputs
ReplyFrame ==
    /\ stopped' = 0
    /\ UNCHANGED <<globals, procs, env, supVars, stopVars, launchVars, pumpVars, meterVars,
                   queryVars, threadVars>>

\* line 1159: no URL
ReplyRejectEmpty ==
    /\ start_pc = "idle"
    /\ request' = Kept([TheRequest EXCEPT
          !.start_reply = [success |-> FALSE, code |-> 200, msg |-> "url_required",
                       details |-> EmptyText]])
    /\ UNCHANGED start_pc
    /\ ReplyFrame

\* lines 1162-1164: a request with a URL; last_error = None
ReplyBegin ==
    /\ start_pc = "idle"
    /\ start_pc' = "launch"
    /\ request' = Kept([TheRequest EXCEPT
          !.last_error = EmptyText,
          !.start_reply = NoReply])
    /\ ReplyFrame

\* lines 1262-1265: _start_vlc_player returns True (or decoder_process was set already)
ReplyVlcStarted ==
    /\ UNCHANGED request
    /\ start_pc = "launch"
    /\ start_pc' = "post_vlc"
    /\ ReplyFrame

\* _start_vlc_player lines 422-428 (cvlc has exited with e on stderr), lines 1266-1272
ReplyVlcFailed(e) ==
    /\ start_pc = "launch"
    /\ start_pc' = "idle"
    /\ request' = Kept([TheRequest EXCEPT
          !.stderr_output = [stderr_output EXCEPT !["start"] = Truncate(e, detail_limit)],
          !.start_reply = VlcRequiredReply])
    /\ ReplyFrame

\* line 1444: the tracked process runs, or has exited
AfterStarted(alive) == IF alive THEN "verify" ELSE "respond_exited"

\* lines 1323-1326: mpg123 with direct ALSA output runs
ReplyDirectStarted(alive) ==
    /\ UNCHANGED request
    /\ start_pc = "post_vlc"
    /\ start_pc' = AfterStarted(alive)
    /\ ReplyFrame

\* lines 1327-1330: it has exited with e on stderr
ReplyDirectFailed(e) ==
    /\ start_pc = "post_vlc"
    /\ start_pc' = "pipe_wait"
    /\ request' = Kept([TheRequest EXCEPT
          !.last_error = Prefix(27, {"alsa"}, Truncate(e, detail_limit))])
    /\ ReplyFrame

\* lines 1365-1367: the piped pair runs
ReplyPipeStarted(alive) ==
    /\ UNCHANGED request
    /\ start_pc = "pipe_wait"
    /\ start_pc' = AfterStarted(alive)
    /\ ReplyFrame

\* line 1365: a leg has exited; last_error stays
ReplyPipeFailed ==
    /\ UNCHANGED request
    /\ start_pc = "pipe_wait"
    /\ start_pc' = "fa_vlc_wait"
    /\ ReplyFrame

\* lines 1368-1371: the piping raised e
ReplyPipeRaises(e) ==
    /\ start_pc = "pipe_wait"
    /\ start_pc' = "fa_vlc_wait"
    /\ request' = Kept([TheRequest EXCEPT
          !.last_error = Prefix(29, {}, e)])
    /\ ReplyFrame

\* lines 1387-1393 and 1409-1411: VLC, the ffmpeg pipeline or cvlc runs
ReplyFallbackStarted(alive) ==
    /\ UNCHANGED request
    /\ start_pc = "fa_vlc_wait"
    /\ start_pc' = AfterStarted(alive)
    /\ ReplyFrame

\* lines 1412-1418: cvlc has exited with e on stderr, or its launch raised e
ReplyCvlcFailed(e, raised) ==
    /\ start_pc = "fa_vlc_wait"
    /\ start_pc' = "pulse_wait"
    /\ request' = Kept([TheRequest EXCEPT
          !.last_error = IF raised THEN Prefix(22, {}, e)
                     ELSE Prefix(13, {}, Truncate(e, detail_limit))])
    /\ ReplyFrame

\* lines 1421-1430: mpg123 with Pulse output runs
ReplyPulseStarted(alive) ==
    /\ UNCHANGED request
    /\ start_pc = "pulse_wait"
    /\ start_pc' = AfterStarted(alive)
    /\ ReplyFrame

\* lines 1431-1437: it has exited with e on stderr, or its launch raised e
ReplyPulseFailed(e, raised) ==
    /\ start_pc = "pulse_wait"
    /\ start_pc' = "respond_fail"
    /\ request' = Kept([TheRequest EXCEPT
          !.last_error = IF raised THEN Prefix(17, {}, e)
                     ELSE Prefix(28, {}, Truncate(e, detail_limit))])
    /\ ReplyFrame

\* lines 1438-1441: any other exception e of the launch
ReplyRaises(e) ==
    /\ start_pc \in {"post_vlc", "pipe_wait", "fa_vlc_wait", "pulse_wait"}
    /\ start_pc' = "respond_fail"
    /\ request' = Kept([TheRequest EXCEPT
          !.last_error = e])
    /\ ReplyFrame

\* lines 1444-1477: decoder_process is None, or has exited with pe on stderr
ReplyFailure(pe) ==
    /\ start_pc \in {"respond_fail", "respond_exited"}
    /\ start_pc = "respond_fail" => pe = EmptyText
    /\ start_pc' = "idle"
    /\ request' = Kept([TheRequest EXCEPT
          !.start_reply = FailureReply(last_error, pe),
          !.last_error = EmptyText])
    /\ ReplyFrame

\* lines 1480-1491: get_decoder_status() within 1.5 s, or not (pe: the process's stderr)
ReplyVerified(ok, pe) ==
    /\ start_pc = "verify"
    /\ ok => pe = EmptyText
    /\ start_pc' = "idle"
    /\ request' = Kept([TheRequest EXCEPT
          !.start_reply = IF ok
                      THEN [success |-> TRUE, code |-> 200, msg |-> "started",
                            details |-> EmptyText]
                      ELSE [success |-> FALSE, code |-> 200, msg |-> "not_playing",
                            details |-> Truncate(pe, detail_limit)],
          !.last_error = EmptyText])
    /\ ReplyFrame

\* _decoder_supervisor_loop lines 292-297 and 303-307: no strategy started a process;
\* _start_vlc_player (lines 422-428) has read e from cvlc's stderr
SupLaunchFailed(e) ==
    /\ AtLoopTest
    /\ LoopCondition
    /\ status_url # ""
    /\ request' = Kept([TheRequest EXCEPT
          !.stderr_output = [stderr_output EXCEPT !["sup"] = Truncate(e, detail_limit)]])
    /\ SupFailure
    /\ stopped' = 0
    /\ UNCHANGED <<globals, procs, env, startVars, stopVars, launchVars, pumpVars, meterVars,
                   queryVars, threadVars>>

ReplyInit == InitWithPumps(MaxProc, 1, {0})

ReplyNext ==
    \/ ReplyRejectEmpty \/ ReplyBegin \/ ReplyVlcStarted \/ ReplyPipeFailed
    \/ \E alive \in BOOLEAN :
          \/ ReplyDirectStarted(alive) \/ ReplyPipeStarted(alive)
          \/ ReplyFallbackStarted(alive) \/ ReplyPulseStarted(alive)
    \/ \E e \in StderrTexts :
          \/ ReplyVlcFailed(e) \/ ReplyDirectFailed(e) \/ ReplyPipeRaises(e)
          \/ ReplyRaises(e) \/ SupLaunchFailed(e)
          \/ \E raised \in BOOLEAN : ReplyCvlcFailed(e, raised) \/ ReplyPulseFailed(e, raised)
    \/ \E pe \in StderrTexts \cup {EmptyText} :
          \/ ReplyFailure(pe)
          \/ \E ok \in BOOLEAN : ReplyVerified(ok, pe)

ReplySpec == ReplyInit /\ [][ReplyNext]_vars

(* ---- the settings a launch is given ---- *)
\* a value of a request's JSON body: the key is absent, its value is no number (int()
\* raises), or it is the integer val
NotGiven == [kind |-> "none", val |-> 0]
BadValue == [kind |-> "bad", val |-> 0]
Given(n) == [kind |-> "int", val |-> n]
\* the integers the requests carry: below, at and above the limits of the clamps
GivenInts == {-1, 0, 1, 5, 60, 61, 121}
GivenValues == {NotGiven, BadValue} \cup {Given(n) : n \in GivenInts}
ConfigFields == {"bufferSecs", "playbackCacheSecs", "volume"}

\* max(lo, min(hi, x))
Clamp(x, lo, hi) == IF x > hi THEN hi ELSE IF x < lo THEN lo ELSE x
\* dec.get(key, d)
GetOr(v, d) == IF v = <<>> THEN d ELSE v[1]

\* a value that is passed on as it is
Unclamped(x) == x

\* lines 287 and 1176: buffer_secs = max(1, min(60, buffer_secs))
LaunchBufferSecs(x) == Clamp(x, 1, 60)
\* lines 289 and 1182: playback_cache_secs = max(0, min(10, playback_cache_secs))
LaunchCacheSecs(x) == Clamp(x, 0, 10)

\* api_save_decoder_config, lines 1526-1533: what a given integer is stored as
StoredAs(field, n) ==
    IF field = "bufferSecs" THEN Clamp(n, 5, 120)
    ELSE IF field = "playbackCacheSecs" THEN Clamp(n, 0, 30)
    ELSE n

\* api_decoder_start, lines 1087-1091 and 1166-1187: the defaults 100, 30 and 10; the
\* request's value, else the saved one, else the default; int() of a value that is no
\* number raises, and the values not yet assigned keep their defaults
StartArgs(cfg, rb, rc) ==
    LET bsrc == IF rb.kind # "none" THEN rb ELSE Given(GetOr(cfg.bufferSecs, 30))
        csrc == IF rc.kind # "none" THEN rc ELSE Given(GetOr(cfg.playbackCacheSecs, 10))
    IN  [by |-> "start",
         volume |-> 100,
         buffer_secs |-> IF bsrc.kind = "bad" THEN 30 ELSE LaunchBufferSecs(bsrc.val),
         playback_cache_secs |->
             IF bsrc.kind = "bad" \/ csrc.kind = "bad" THEN 10 ELSE LaunchCacheSecs(csrc.val)]

\* _decoder_supervisor_loop, lines 250 and 286-290
SupArgs(cfg) ==
    [by |-> "sup",
     volume |-> 100,
     buffer_secs |-> LaunchBufferSecs(GetOr(cfg.bufferSecs, 10)),
     playback_cache_secs |-> LaunchCacheSecs(GetOr(cfg.playbackCacheSecs, 3))]

\* what the steps that settle a launch's settings leave alone
ArgFrame ==
    /\ stopped' = 0
    /\ UNCHANGED <<globals, procs, env, supVars, startVars, stopVars, launchVars, pumpVars,
                   meterVars, queryVars, threadVars>>

\* api_save_decoder_config, lines 1519-1537, for a body with one of the three keys:
\* int() of a value that is no number raises and nothing is stored; save_status may fail
SaveDecoderConfig(field, g, saved) ==
    /\ request' = Kept([TheRequest EXCEPT
          !.decoder_config =
          IF g.kind = "int" /\ saved
          THEN [decoder_config EXCEPT ![field] = <<StoredAs(field, g.val)>>]
          ELSE decoder_config])
    /\ ArgFrame

\* api_decoder_start, lines 1166-1187, 1225-1241 and 1263: the settings are taken from the
\* request and the store, the store gets its defaults, the launcher is called
ParamStart(rb, rc, saved) ==
    /\ start_pc = "idle"
    /\ request' = Kept([TheRequest EXCEPT
          !.launch_args = StartArgs(decoder_config, rb, rc),
          !.decoder_config =
          IF saved
          THEN [decoder_config EXCEPT
                   !.bufferSecs = <<GetOr(decoder_config.bufferSecs, 30)>>,
                   !.playbackCacheSecs = <<GetOr(decoder_config.playbackCacheSecs, 10)>>]
          ELSE decoder_config])
    /\ ArgFrame

\* _decoder_supervisor_loop, lines 246-292: an iteration that finds no running process
\* calls the launcher
ParamSupLaunch ==
    /\ AtLoopTest
    /\ LoopCondition
    /\ status_url # ""
    /\ ~ProcessRunning
    /\ request' = Kept([TheRequest EXCEPT
          !.launch_args = SupArgs(decoder_config)])
    /\ ArgFrame

ParamInit == InitWithPumps(MaxProc, 1, {0})

ParamNext ==
    \/ \E field \in ConfigFields, g \in GivenValues, saved \in BOOLEAN :
          SaveDecoderConfig(field, g, saved)
    \/ \E rb, rc \in GivenValues, saved \in BOOLEAN : ParamStart(rb, rc, saved)
    \/ ParamSupLaunch

ParamSpec == ParamInit /\ [][ParamNext]_vars

(* ---- what a backend is started with ---- *)
\* lines 172 and 493: 44100 * 2 * 2 bytes of stereo 16-bit PCM in a second
bytes_per_second == 176400

\* _start_decoder_process, lines 172-173: mpg123 -b
Mpg123BufferBytes(b) == Clamp(b * bytes_per_second, 4096, 1048576)

\* a buffer size that is clamped as mpg123's and given in bytes
FfmpegBufsizeClamped(b) == [n |-> Clamp(b * bytes_per_second, 4096, 1048576), unit |-> 1]

\* _start_ffmpeg_pipeline, lines 493-499: buffer_size_str as its number and the bytes
\* of its unit (B, k, M)
FfmpegBufsize(b) ==
    LET n == b * bytes_per_second
    IN  IF n < 1024 THEN [n |-> n, unit |-> 1]
        ELSE IF n < 1048576 THEN [n |-> n \div 1024, unit |-> 1024]
        ELSE [n |-> n \div 1048576, unit |-> 1048576]

\* volume * 2.56 rounded to the nearest integer
VlcVolumeRounded(v) == (v * 256 + 50) \div 100

\* _start_vlc_player, line 357: int(volume * 2.56); the product is cut to its integer
\* part (for 0..100 the float product gives the same integer as 256 * volume / 100)
vlc_volume(v) == (v * 256) \div 100

\* line 362-363: network_cache_ms
network_cache_ms(b) == Clamp(b * 1000, 5000, 120000)

\* a pre-buffer that leaves the playback cache out
LiveCacheOfBufferOnly(b, c) == Clamp(b * 1000, 10000, 120000)

\* lines 366-367: live_cache_ms
live_cache_ms(b, c) == Clamp((b + c) * 1000, 10000, 120000)

\* line 370: file_cache_ms
file_cache_ms(b) == network_cache_ms(b) * 2

\* the arguments the launcher functions are called with: the volume over its range with
\* the start handler's default settings, and the settings over the ranges of their
\* clamps with the volume of every launch
LauncherArgs ==
    {[by |-> "start", volume |-> v, buffer_secs |-> 30, playback_cache_secs |-> 10] :
        v \in 0..100}
    \cup {[by |-> "start", volume |-> 100, buffer_secs |-> b, playback_cache_secs |-> c] :
             b \in 1..60, c \in 0..10}

BackendFrame ==
    /\ stopped' = 0
    /\ UNCHANGED <<globals, procs, env, supVars, startVars, stopVars, launchVars, pumpVars,
                   meterVars, queryVars, threadVars>>

\* _start_vlc_player, lines 356-400: vlc_cmd
VlcCommand ==
    /\ request' = Kept([TheRequest EXCEPT
          !.backend_args =
          [kind |-> "cvlc",
           volume |-> vlc_volume(launch_args.volume),
           network_caching |-> network_cache_ms(launch_args.buffer_secs),
           file_caching |-> file_cache_ms(launch_args.buffer_secs),
           live_caching |-> live_cache_ms(launch_args.buffer_secs,
                                          launch_args.playback_cache_secs)]])
    /\ BackendFrame

\* _start_ffmpeg_pipeline, lines 490-510: ffmpeg -bufsize
FfmpegCommand ==
    /\ request' = Kept([TheRequest EXCEPT
          !.backend_args = [kind |-> "ffmpeg", bufsize |-> FfmpegBufsize(launch_args.buffer_secs)]])
    /\ BackendFrame

\* _start_decoder_process, lines 166-177: mpg123 -b, for an MP3-like URL
Mpg123Command ==
    /\ is_mp3_like(status_url)
    /\ request' = Kept([TheRequest EXCEPT
          !.backend_args = [kind |-> "mpg123",
                        buffer_bytes |-> Mpg123BufferBytes(launch_args.buffer_secs)]])
    /\ BackendFrame

BackendInit ==
    /\ MeterAtStart("hw:1,0", "hw:1,0")
    /\ ThreadsAtStart
    /\ \E a \in LauncherArgs : RequestWith(a)
    /\ decoder_should_run = TRUE
    /\ decoder_process = None
    /\ decoder_aplay_process = None
    /\ procs = [i \in 1..MaxProc |-> Free]
    /\ status_url = "mp3"
    /\ sup_pc = "start"
    /\ backoff = initial_backoff
    /\ consecutive_failures = 0
    /\ start_pc = "idle"
    /\ stop_pc = "idle"
    /\ loc = [t \in Threads |-> NoLoc]
    /\ launch_log = [t \in Threads |-> <<>>]
    /\ stopped = 0
    /\ pumps = <<>>
    /\ playback_cache_secs = 0

BackendNext == VlcCommand \/ FfmpegCommand \/ Mpg123Command

BackendSpec == BackendInit /\ [][BackendNext]_vars

(* ---- the bytes through _pump_and_meter ---- *)
\* The audio is counted in blocks; a block stands for a run of bytes, and the blocks of
\* the decoder's output are numbered 1, 2, ... in the order ffmpeg writes them.
\* chunk_size, in blocks
RelayChunk == 2
\* playback_cache_bytes, in blocks: no pre-fill, or one that is not a whole number of
\* chunks
RelayCaches == {0, 3}
\* the blocks ffmpeg writes before it ends are at most this many
MaxBlocks == 5

\* the blocks a..b in order
Blocks(a, b) == [i \in 1..(b - a + 1) |-> a + i - 1]

\* lines 543-546: the thread starts; ffmpeg will write n blocks in all, the cache is to
\* hold w blocks
RelayStart(ff, ap, n, w) ==
    [pc |-> "prefill", ff |-> ff, ap |-> ap, total |-> n, want |-> w, taken |-> 0,
     cache |-> <<>>, written |-> <<>>, late |-> FALSE]

\* stdout.read(n): the next n blocks, or the fewer that are left at end of file
ReadBlocks(r, n) == Blocks(r.taken + 1, r.taken + Min(n, r.total - r.taken))
\* the read returns: its blocks are there, or ffmpeg's end has closed the stream
ReadDone(r, n, P) == r.total - r.taken >= n \/ Exited(P, r.ff)

\* lines 583-595: stdin.write(data) and flush(). o is the outcome: "ok"; "broken", a
\* BrokenPipeError, which ends the loop; "error", another exception, after which the
\* loop goes on with the next chunk. A failed write has passed on k blocks of the chunk.
WriteToAplay(r, data, o, k) ==
    CASE o = "ok" -> [r EXCEPT !.written = @ \o data, !.pc = "relay"]
      [] o = "broken" -> [r EXCEPT !.written = @ \o SubSeq(data, 1, k), !.pc = "done"]
      [] o = "error" -> [r EXCEPT !.written = @ \o SubSeq(data, 1, k), !.pc = "relay"]

\* the outcomes a write can have: a pipe whose reader has exited is broken
WriteOutcomes(P, ap) == IF Alive(P, ap) THEN {"ok", "error"} ELSE {"broken", "error"}

RelayFrame ==
    /\ stopped' = 0
    /\ UNCHANGED <<globals, procs, env, supVars, startVars, stopVars, launchVars, pumpVars,
                   meterVars, queryVars, requestVars, capture, devices>>

\* line 553: the pre-fill loop goes on
PrefillGoesOn(r) == Len(r.cache) < r.want /\ decoder_should_run /\ ~r.late

\* lines 553-561: a pre-fill read returns; its blocks are appended to the cache, b'' from
\* an exited ffmpeg ends the pre-fill
RelayPrefillRead ==
    LET n == Min(RelayChunk, relay.want - Len(relay.cache))
        data == ReadBlocks(relay, n)
    IN  /\ relay.pc = "prefill"
        /\ PrefillGoesOn(relay)
        /\ ReadDone(relay, n, procs)
        /\ relay' = IF data = <<>>
                    THEN [relay EXCEPT !.pc = "relay"]
                    ELSE [relay EXCEPT !.cache = @ \o data, !.taken = @ + Len(data)]
        /\ RelayFrame

\* lines 551-553: there is no pre-fill, or its loop test fails
RelayPrefillEnds ==
    /\ relay.pc = "prefill"
    /\ ~PrefillGoesOn(relay)
    /\ relay' = [relay EXCEPT !.pc = "relay"]
    /\ RelayFrame

\* line 552: ten seconds have passed since the pre-fill began
RelayDeadline ==
    /\ relay.pc = "prefill"
    /\ ~relay.late
    /\ relay' = [relay EXCEPT !.late = TRUE]
    /\ RelayFrame

\* line 568: the relay loop goes on
RelayGoesOn(r) == decoder_should_run /\ Alive(procs, r.ff) /\ Alive(procs, r.ap)

\* line 568 fails: the loop and the thread end (lines 607-612)
RelayLoopEnds ==
    /\ relay.pc = "relay"
    /\ ~RelayGoesOn(relay)
    /\ relay' = [relay EXCEPT !.pc = "done"]
    /\ RelayFrame

\* lines 570-572 and 583-595: the head of the cache is taken and written
RelayFromCache(o, k) ==
    LET data == SubSeq(relay.cache, 1, Min(RelayChunk, Len(relay.cache)))
        rest == SubSeq(relay.cache, Len(data) + 1, Len(relay.cache))
    IN  /\ relay.pc = "relay"
        /\ RelayGoesOn(relay)
        /\ relay.cache # <<>>
        /\ o \in WriteOutcomes(procs, relay.ap)
        /\ k < Len(data)
        /\ relay' = WriteToAplay([relay EXCEPT !.cache = rest], data, o, k)
        /\ RelayFrame

\* lines 573-574: the cache is empty, the stream is read
RelayReads ==
    /\ relay.pc = "relay"
    /\ RelayGoesOn(relay)
    /\ relay.cache = <<>>
    /\ relay' = [relay EXCEPT !.pc = "read"]
    /\ RelayFrame

\* lines 574-579: the read returns b''
RelayReadEmpty ==
    /\ relay.pc = "read"
    /\ ReadDone(relay, RelayChunk, procs)
    /\ ReadBlocks(relay, RelayChunk) = <<>>
    /\ relay' = [relay EXCEPT !.pc = "relay"]
    /\ RelayFrame

\* lines 574 and 583-595: the read returns a chunk, which is written
RelayFromStream(o, k) ==
    LET data == ReadBlocks(relay, RelayChunk)
    IN  /\ relay.pc = "read"
        /\ ReadDone(relay, RelayChunk, procs)
        /\ data # <<>>
        /\ o \in WriteOutcomes(procs, relay.ap)
        /\ k < Len(data)
        /\ relay' = WriteToAplay([relay EXCEPT !.taken = @ + Len(data)], data, o, k)
        /\ RelayFrame

\* _start_ffmpeg_pipeline has started ffmpeg, aplay and the pump thread for the
\* supervisor, which sleeps after its success
RelayInit ==
    /\ MeterAtStart("hw:1,0", "hw:1,0")
    /\ RequestAtStart
    /\ decoder_should_run = TRUE
    /\ decoder_process = 1
    /\ decoder_aplay_process = 2
    /\ procs = [i \in 1..MaxProc |->
                   IF i = 1 THEN [kind |-> "ffmpeg", state |-> "alive", launch |-> "sup"]
                   ELSE IF i = 2 THEN [kind |-> "aplay", state |-> "alive", launch |-> "sup"]
                   ELSE Free]
    /\ status_url = "aac"
    /\ sup_pc = "sleep_ok"
    /\ backoff = initial_backoff
    /\ consecutive_failures = 0
    /\ start_pc = "idle"
    /\ stop_pc = "idle"
    /\ loc = [t \in Threads |-> NoLoc]
    /\ launch_log = [t \in Threads |-> <<>>]
    /\ stopped = 0
    /\ pumps = [p \in 1..1 |-> NoPump]
    /\ playback_cache_secs = 0
    /\ \E n \in 0..MaxBlocks, w \in RelayCaches : relay = RelayStart(1, 2, n, w)
    /\ capture = <<>>
    /\ devices = <<>>

RelayPump ==
    \/ RelayPrefillRead \/ RelayPrefillEnds \/ RelayDeadline
    \/ RelayLoopEnds \/ RelayReads \/ RelayReadEmpty
    \/ \E o \in {"ok", "broken", "error"}, k \in 0..(RelayChunk - 1) :
          RelayFromCache(o, k) \/ RelayFromStream(o, k)

RelayNext ==
    \/ RelayPump
    \/ StopHandler
    \/ \E i \in ProcIds : ProcExit(i)

RelaySpec == RelayInit /\ [][RelayNext]_vars

(* ---- the read_audio_levels threads and their restart ---- *)
\* Time is counted in ticks of 50 ms.
\* read_audio_levels threads that exist at once
MaxMeters == 2
\* lines 777 and 1012: time.sleep(0.2)
restart_sleep == 4
\* the time from one test of `running` (line 710) to the next: a capture that fails at
\* once and the sleep of 0.15 s (line 732); a capture of 0.1 s (line 713, -d 0.1) and
\* the sleep of 0.1 s (lines 740 and 763); a capture that runs into its timeout of
\* 0.8 s (line 714) and the sleep of 0.5 s (line 768)
IterationTicks == {3, 4, 26}

MeterIds == 1..MaxMeters
\* no thread in the slot
NoMeter == [alive |-> FALSE, wait |-> 0]
\* lines 2403-2411: running is True and the first thread has been started
CaptureStart ==
    [running |-> TRUE,
     audio_level_thread |-> 1,
     threads |-> [i \in MeterIds |-> IF i = 1 THEN [alive |-> TRUE, wait |-> 0] ELSE NoMeter],
     restart_pc |-> "idle",
     restart_wait |-> 0]

\* global running
running == capture.running
\* the read_audio_levels threads that have not returned
LiveMeters == {i \in MeterIds : capture.threads[i].alive}
FreeMeters == MeterIds \ LiveMeters

CaptureFrame ==
    /\ UNCHANGED <<globals, procs, env, supVars, startVars, stopVars, launchVars, stopped,
                   pumpVars, meterVars, queryVars, requestVars, relay, devices>>

\* line 710: the thread i tests `running`; it goes into an iteration that takes d ticks,
\* or returns
MeterLoopTest(i, d) ==
    /\ capture.threads[i].alive
    /\ capture.threads[i].wait = 0
    /\ capture' = [capture EXCEPT !.threads[i] =
                      IF running THEN [alive |-> TRUE, wait |-> d] ELSE NoMeter]
    /\ CaptureFrame

\* lines 774-777 and 1009-1012: running = False; if the last thread started is alive,
\* the caller sleeps 0.2 s
RestartBegins ==
    /\ capture.restart_pc = "idle"
    /\ capture' = [capture EXCEPT
                      !.running = FALSE,
                      !.restart_pc = "sleep",
                      !.restart_wait = IF capture.audio_level_thread \in LiveMeters
                                       THEN restart_sleep ELSE 0]
    /\ CaptureFrame

\* lines 780-786 and 1016-1023: running = True, a new thread is started
RestartStarts ==
    /\ capture.restart_pc = "sleep"
    /\ capture.restart_wait = 0
    /\ FreeMeters # {}
    /\ LET n == MinOf(FreeMeters)
       IN  capture' = [capture EXCEPT !.running = TRUE,
                                      !.audio_level_thread = n,
                                      !.threads[n] = [alive |-> TRUE, wait |-> 0],
                                      !.restart_pc = "idle"]
    /\ CaptureFrame

\* 50 ms pass: nobody is due
CaptureTick ==
    /\ \A i \in LiveMeters : capture.threads[i].wait > 0
    /\ capture.restart_pc = "sleep" => capture.restart_wait > 0
    /\ capture' = [capture EXCEPT
                      !.threads = [i \in MeterIds |->
                                      IF capture.threads[i].alive
                                      THEN [capture.threads[i] EXCEPT !.wait = @ - 1]
                                      ELSE capture.threads[i]],
                      !.restart_wait = IF capture.restart_pc = "sleep" THEN @ - 1 ELSE @]
    /\ CaptureFrame

CaptureInit ==
    /\ MeterAtStart("hw:1,0", "hw:1,0")
    /\ RequestAtStart
    /\ decoder_should_run = FALSE
    /\ decoder_process = None
    /\ decoder_aplay_process = None
    /\ procs = [i \in 1..MaxProc |-> Free]
    /\ status_url \in Urls
    /\ sup_pc = "start"
    /\ backoff = initial_backoff
    /\ consecutive_failures = 0
    /\ start_pc = "idle"
    /\ stop_pc = "idle"
    /\ loc = [t \in Threads |-> NoLoc]
    /\ launch_log = [t \in Threads |-> <<>>]
    /\ stopped = 0
    /\ pumps = [p \in 1..1 |-> NoPump]
    /\ playback_cache_secs = 0
    /\ relay = <<>>
    /\ devices = <<>>
    /\ capture = CaptureStart

CaptureNext ==
    \/ \E i \in MeterIds, d \in IterationTicks : MeterLoopTest(i, d)
    \/ RestartBegins
    \/ RestartStarts
    \/ CaptureTick

CaptureSpec == CaptureInit /\ [][CaptureNext]_vars

(* ---- claims ---- *)
AliveIds == {i \in ProcIds : procs[i].state = "alive"}
SupSleeping == sup_pc \in {"sleep_idle", "sleep_poll", "sleep_ok", "sleep_backoff"}
\* the supervisor thread takes a step
SupStep == <<supVars, loc["sup"], launch_log["sup"]>>' # <<supVars, loc["sup"], launch_log["sup"]>>
KnownBackendNames == {"mpg123", "aplay", "cvlc", "vlc", "ffmpeg"}
StrategyOrder == <<"vlc", "ffmpeg", "mpg123">>
IsPrefix(s, t) == Len(s) <= Len(t) /\ \A k \in 1..Len(s) : s[k] = t[k]

\* C1: at most one launched pipeline is alive at any time: the backend processes that
\* are running never belong to two different launches.
C1_AtMostOneLaunchAlive ==
    \A i, j \in AliveIds : procs[i].launch = procs[j].launch

\* C2: while shouldRun is true and a URL is configured, a tracked pipeline with an exited
\* process is relaunched by the Supervisor Loop at its next iteration: the loop is still
\* running whenever such a pipeline exists.
C2_DeadPipelineIsSupervised ==
    (/\ decoder_should_run
     /\ status_url # ""
     /\ (Exited(procs, decoder_process) \/ Exited(procs, decoder_aplay_process)))
    => sup_pc # "done"

\* C3: the Supervisor Loop has no terminal state: once started it never returns.
C3_SupervisorNeverReturns == sup_pc # "done"

C5_StopDuringBackoffEndsLoop ==
    [][/\ (sup_pc = "sleep_backoff" /\ ~decoder_should_run /\ SupStep) =>
             (sup_pc' = "done" /\ UNCHANGED <<globals, procs, launchVars>>)
       /\ (sup_pc = "done" => sup_pc' = "done")
      ]_vars

\* C5 witness: the supervisor is in the backoff sleep after a failed launch and a stop
\* request has just cleared shouldRun
C5_Witness ==
    /\ sup_pc = "sleep_backoff"
    /\ consecutive_failures > 0
    /\ stopped = 1
    /\ ~decoder_should_run

\* C6: when a start request spawns the first process of its pipeline, no process of an
\* earlier launch is alive.  (Taken with the supervisor thread not running: every
\* process of an earlier launch was then spawned before the request came in.)
C6_StartSpawnsAfterTeardown ==
    [][(start_pc = "launch" /\ start_pc' = "vlc_wait" /\ sup_pc = "done") =>
          \A i \in AliveIds : procs[i].launch # "old"
      ]_vars

\* C7: a stop request that directly follows a stop request (no other thread and no
\* process has taken a step in between) changes nothing: shouldRun, the tracked
\* handles, the supervisor's state and the process table stay as the first one left them.
C7_SecondStopIsNoOp ==
    [][(stopped >= 1 /\ stop_pc = "idle" /\ stop_pc' = "sleep") =>
          UNCHANGED <<globals, supVars, procs>>
      ]_vars

\* C7 witness: the second of two stop requests in a row has acted
C7_Witness == stopped = 2 /\ stop_pc = "sleep"

\* C8: the supervisor leaves its loop only when shouldRun is false; a launch whose last
\* strategy fails goes to the backoff sleep; and when a sleep ends with shouldRun true, a
\* URL configured and no pipeline running, the next step is a launch attempt (or, when
\* the iteration raises, another backoff sleep).
C8_FailureNeverEndsLoop ==
    [][/\ (sup_pc # "done" /\ sup_pc' = "done") => ~decoder_should_run
       /\ (/\ SupStep
           /\ \/ (sup_pc = "mpg123_wait" /\ ~Mpg123Ok)
              \/ (sup_pc = "ffmpeg_wait" /\ ~FfmpegOk("sup") /\ ~is_mp3_like(loc["sup"].url)))
          => (sup_pc' = "sleep_backoff" /\ (backoff' > backoff \/ backoff' = max_backoff))
       /\ (SupSleeping /\ SupStep /\ decoder_should_run /\ status_url # "" /\ ~ProcessRunning)
          => sup_pc' \in {"try_vlc", "sleep_backoff"}
      ]_vars

\* C8 witness: after a failed launch and its backoff sleep, with shouldRun still true,
\* the supervisor is launching again
C8_Witness ==
    /\ sup_pc = "try_vlc"
    /\ consecutive_failures > 0
    /\ decoder_should_run

\* C9: after a start request whose launch has failed (it is about to answer ok=false)
\* with shouldRun left true, the Supervisor Loop is running, so that it retries.
C9_FailedStartIsRetried ==
    (/\ start_pc = "respond_fail"
     /\ launch_log["start"] # <<>>
     /\ decoder_should_run
     /\ status_url # "")
    => sup_pc # "done"

\* C10: the strategies a launch has tried so far are an initial part of the order VLC,
\* ffmpeg, mpg123, and a start request answers with a failure only when its launch has
\* tried all three.
C10_FixedStrategyOrder ==
    /\ \A t \in Threads : IsPrefix(launch_log[t], StrategyOrder)
    /\ (start_pc = "respond_fail" /\ launch_log["start"] # <<>>) =>
          launch_log["start"] = StrategyOrder

\* C11: when a launcher's ffmpeg attempt fails (a leg has exited during the startup
\* wait), the step in which the launcher returns leaves no process of that attempt running.
C11_FailedAttemptIsCleanedUp ==
    [][/\ (sup_pc = "ffmpeg_wait" /\ ~FfmpegOk("sup") /\ SupStep) =>
             \A h \in {loc["sup"].a, loc["sup"].b} :
                 Alive(procs, h) => procs'[h].state # "alive"
       /\ (start_pc = "fb_ffmpeg_wait" /\ ~FfmpegOk("start") /\ start_pc' # start_pc) =>
             \A h \in {loc["start"].a, loc["start"].b} :
                 Alive(procs, h) => procs'[h].state # "alive"
      ]_vars

\* C12: when the first leg of the tracked two-process pipeline has died (its handle has
\* been dropped, the output leg is still tracked) and the supervisor's relaunch succeeds
\* with VLC, no request being served at that moment, the surviving output leg is not
\* left running once the new player is the tracked pipeline.
C12_RelaunchTearsDownPrevious ==
    [][(/\ sup_pc = "vlc_wait" /\ sup_pc' = "sleep_ok"
        /\ start_pc = "idle" /\ stop_pc = "idle"
        /\ decoder_process = None /\ decoder_aplay_process # None)
       => ~Alive(procs', decoder_aplay_process)
      ]_vars

ClaimedDelay == <<32, 48, 72, 108, 162, 243, 320>>

\* C14: the delay the supervisor sleeps after the k-th consecutive failed launch is the
\* k-th of the sequence 1.0, 1.5, 2.25, 3.375, 5.0625, 7.59375, 10.0 s (for k below the
\* value up to which the counter is kept).
C14_BackoffSequence ==
    [][(/\ sup_pc \in {"ffmpeg_wait", "mpg123_wait"}
        /\ sup_pc' = "sleep_backoff"
        /\ consecutive_failures' \in 1..(MaxFailures - 1))
       => backoff' = ClaimedDelay[consecutive_failures']
      ]_vars

\* C15: in every state of the supervisor, backoff lies within [1.0 s, 10.0 s] (32 and 320
\* ticks) and consecutive_failures is a non-negative integer.
C15_BackoffWithinBounds ==
    /\ backoff \in Int
    /\ 1 * 32 <= backoff
    /\ backoff <= 10 * 32
    /\ consecutive_failures \in Nat

\* C15 witness: the supervisor sleeps with the backoff at the cap, after an iteration
\* that found no pipeline running has failed
C15_Witness ==
    /\ sup_pc = "sleep_backoff"
    /\ backoff = max_backoff
    /\ consecutive_failures > 0

(* ---- claims about the pump thread ---- *)
RunningPumps == {p \in PumpIds : pumps[p].pc # "none"}
\* the pump thread p itself takes a step
PumpStep(p) ==
    /\ pumps[p].pc # "none"
    /\ (pumps'[p].pc # pumps[p].pc \/ pumps'[p].len # pumps[p].len)
\* the pump is blocked in a read that nothing ends: no bytes, ffmpeg alive
BlockedInRead(p) ==
    /\ pumps[p].pc \in {"prefill_read", "relay_read"}
    /\ ~ReadReturns(pumps[p], procs)

\* C16: at most one pump thread is running at any time: an old pump is never still
\* running (here: waiting in a read on its own ffmpeg) while a newer pump runs.
C16_AtMostOnePump ==
    \A p, q \in RunningPumps : (BlockedInRead(p) /\ BlockedInRead(q)) => p = q

\* C17: a pump step that comes to a loop test (the return of a pre-fill read, the end
\* of a relay iteration) when shouldRun is false or one of its two processes is dead
\* ends the pump thread.
C17_PumpExitsAtNextIteration ==
    [][\A p \in PumpIds :
          (/\ pumps[p].pc \in {"prefill_read", "relay_pause"}
           /\ PumpStep(p)
           /\ (\/ ~decoder_should_run
               \/ ~Alive(procs, pumps[p].ff)
               \/ ~Alive(procs, pumps[p].ap)))
          => pumps'[p].pc = "none"]_vars

\* C18: the pre-fill never holds more than playbackCacheSecs * 44100 * 2 * 2 bytes, and
\* once its deadline has passed the pump is not held in the pre-fill: its read returns.
C18_PrefillEndsByDeadline ==
    \A p \in PumpIds :
        /\ pumps[p].len <= playback_cache_secs * 44100 * 2 * 2
        /\ (pumps[p].pc = "prefill_read" /\ pumps[p].late) => ReadReturns(pumps[p], procs)

C20_FallbackAfterRepeatedFailures ==
    [][(/\ (empty_run' >= empty_limit \/ hard_run' >= error_limit)
        /\ <<empty_run, hard_run>>' # <<empty_run, hard_run>>
        /\ detected_input # device_in_use)
       => device_in_use' = detected_input]_vars

\* a capture read has just failed: no samples were taken from it
CaptureFailed == samples = <<>> /\ (empty_run > 0 \/ hard_run > 0)

\* C21: after a capture read that failed (an empty read or a hard error), and until a
\* read succeeds again, the reported levels are left = right = 0.0.
C21_ZeroLevelsWhileFailing ==
    CaptureFailed => audio_levels = ZeroLevels

AllZero(c) == \A k \in 1..Len(c) : c[k] = 0
Alternating32767(c) == \A k \in 1..Len(c) : Abs(c[k]) = 32767

\* C22: the level of each channel lies in [0, 1]; an all-zero chunk gives 0.0 on both
\* channels; a chunk of full-scale +-32767 samples gives a level just below 1.0.
C22_LevelsWithinUnitRange ==
    /\ audio_levels.left \in 0..FullScale /\ audio_levels.right \in 0..FullScale
    /\ samples # <<>> => audio_levels = Levels(samples)
    /\ (samples # <<>> /\ AllZero(samples)) => audio_levels = ZeroLevels
    /\ (samples # <<>> /\ Alternating32767(samples)) =>
          /\ audio_levels.left = FullScale - 1
          /\ audio_levels.right = FullScale - 1

\* a read of +-32767 on both channels has been measured, and one of -32768
C22_Witness ==
    /\ Len(samples) = MaxSamples
    /\ Alternating32767(samples)
    /\ samples[1] = 32767 /\ samples[2] = -32767
    /\ audio_levels.left = FullScale - 1

(* ---- claims about the status queries ---- *)
\* C23: a status query only reads: the step that answers it leaves shouldRun, the
\* tracked handles, the process table, the supervisor's backoff and failure count, the
\* stored URL and the levels as they were.
C23_StatusQueryOnlyReads ==
    [][(status_reply' # status_reply) =>
          /\ UNCHANGED <<decoder_should_run, decoder_process, decoder_aplay_process>>
          /\ UNCHANGED <<procs, status_url, backoff, consecutive_failures, sup_pc>>
          /\ UNCHANGED <<audio_levels, playback_cache_secs, pumps>>]_vars

\* a query has answered "running" and reported a measured level while a tracked
\* process had exited
C23_Witness ==
    /\ status_reply.decoder
    /\ status_reply.audioLevels.left > 0
    /\ Exited(procs, decoder_process)

(* ---- claims about the start request's parameters and errors ---- *)
\* the start handler is about to launch a URL that the store does not hold: the write
\* of the requested URL has failed
StoreWriteFailed == start_pc = "launch" /\ status_url # loc["start"].url

DeviceStyle(t) == t.err \cap device_errors # {} /\ t.err \cap connection_errors = {}

\* the error a failing answer is given for: cvlc's stderr when _start_vlc_player has
\* failed, last_error otherwise
FailedWith == IF start_pc = "launch" THEN stderr_output'["start"] ELSE last_error

\* C25: when a start request fails with a device or driver error, its answer carries
\* that error uncut together with the device hints (not the connection message, not a
\* generic one); the supervisor counts a failed launch and grows its backoff in the
\* same way whatever the error was.
C25_DeviceErrorIsReported ==
    [][/\ (/\ start_reply' # start_reply
           /\ start_pc \in {"launch", "respond_fail", "respond_exited"}
           /\ ~start_reply'.success
           /\ DeviceStyle(FailedWith))
          => /\ start_reply'.msg = "device"
             /\ start_reply'.details.err = FailedWith.err
             /\ ~start_reply'.details.cut
       /\ (stderr_output'["sup"] # stderr_output["sup"])
          => /\ sup_pc' = "sleep_backoff"
             /\ backoff' = NextBackoff(backoff)
             /\ consecutive_failures' =
                   IF consecutive_failures < MaxFailures THEN consecutive_failures + 1
                   ELSE MaxFailures]_vars

\* C26: every launch, from a start request or from the supervisor, is given bufferSecs
\* in [1, 60], playbackCacheSecs in [0, 10] and volume in [0, 100], whatever the request
\* carried and whatever was saved through the config endpoint.
C26_LaunchSettingsClamped ==
    launch_args.by # "none" =>
        /\ launch_args.buffer_secs \in 1..60
        /\ launch_args.playback_cache_secs \in 0..10
        /\ launch_args.volume \in 0..100

\* the supervisor has launched with 60 and 10 while 120, 30 and a volume of 121 are saved
C26_Witness ==
    /\ launch_args.by = "sup"
    /\ decoder_config = [bufferSecs |-> <<120>>, playbackCacheSecs |-> <<30>>,
                         volume |-> <<121>>]
    /\ launch_args.buffer_secs = 60
    /\ launch_args.playback_cache_secs = 10

\* the bytes a buffer size of ffmpeg stands for
BufsizeBytes(z) == z.n * z.unit

\* C27 as stated: for every bufferSecs in [1, 60], the PCM buffer byte budget handed to a
\* backend (mpg123 -b, ffmpeg -bufsize) equals clamp(bufferSecs * 176400, 4096, 1048576).
C27_BufferByteBudget ==
    LET budget == Clamp(launch_args.buffer_secs * 176400, 4096, 1048576)
    IN  /\ backend_args.kind = "mpg123" => backend_args.buffer_bytes = budget
        /\ backend_args.kind = "ffmpeg" => BufsizeBytes(backend_args.bufsize) = budget

\* C27: for every bufferSecs in [1, 60], mpg123 is handed clamp(bufferSecs * 176400, 4096,
\* 1048576) bytes; ffmpeg is handed bufferSecs * 176400 bytes without a clamp, as whole
\* KiB below 1 MiB and as whole MiB from there on, rounded down.
C27_BudgetPerBackend ==
    LET n == launch_args.buffer_secs * 176400
    IN  /\ backend_args.kind = "mpg123" =>
              backend_args.buffer_bytes = Clamp(n, 4096, 1048576)
        /\ backend_args.kind = "ffmpeg" =>
              LET z == backend_args.bufsize
              IN  /\ z.unit = IF n < 1048576 THEN 1024 ELSE 1048576
                  /\ BufsizeBytes(z) <= n
                  /\ n < BufsizeBytes(z) + z.unit

\* ffmpeg has been started for 60 s of buffer with a buffer size of 10M
C27_Witness ==
    /\ backend_args.kind = "ffmpeg"
    /\ launch_args.buffer_secs = 60
    /\ backend_args.bufsize = [n |-> 10, unit |-> 1048576]

C29_PlayerCaches ==
    backend_args.kind = "cvlc" =>
        LET b == launch_args.buffer_secs
            c == launch_args.playback_cache_secs
            net == IF b * 1000 < 5000 THEN 5000
                   ELSE IF b * 1000 > 120000 THEN 120000 ELSE b * 1000
            live == IF (b + c) * 1000 < 10000 THEN 10000
                    ELSE IF (b + c) * 1000 > 120000 THEN 120000 ELSE (b + c) * 1000
        IN  /\ backend_args.network_caching = net
            /\ backend_args.live_caching = live
            /\ backend_args.file_caching = 2 * net

\* the player has been started for 8 s of buffer and 5 s of playback cache
C29_Witness ==
    /\ backend_args.kind = "cvlc"
    /\ launch_args.buffer_secs = 8
    /\ launch_args.playback_cache_secs = 5
    /\ backend_args.network_caching = 8000
    /\ backend_args.live_caching = 13000
    /\ backend_args.file_caching = 16000

(* ---- claims about a stop beside a launch in progress ---- *)
\* api_decoder_stop has just returned: no thread and no process has taken a step since
\* the stop request began
StopJustReturned == stopped >= 1 /\ stop_pc = "idle"
\* a start request is issued
StartIssued == start_pc = "idle" /\ start_pc' # "idle"

\* C30 (safety part): once a stop request has returned and no start is issued after it,
\* no backend process is spawned and no process handle becomes tracked, even when the
\* supervisor or a start handler was in the middle of a launch when the stop ran.
C30_NoSpawnAfterStop ==
    [][(StopJustReturned /\ ~StartIssued) =>
          /\ \A i \in ProcIds : procs'[i].state = "alive" => procs[i].state = "alive"
          /\ decoder_process' \in {None, decoder_process}
          /\ decoder_aplay_process' \in {None, decoder_aplay_process}]_vars

(* ---- claims about a rejected start request ---- *)
\* a start request without a URL comes in: its first step (lines 1095-1119); the request
\* is then answered 'Stream URL is required' (lines 1158-1159)
RejectedStartBegins ==
    start_pc = "idle" /\ start_pc' = "parse" /\ loc'["start"].url = ""

\* C31: a start request that is rejected for its empty or missing URL leaves the running
\* processes, the tracked handles and shouldRun as they were before the request.
C31_RejectedStartChangesNothing ==
    [][RejectedStartBegins =>
          /\ decoder_should_run' = decoder_should_run
          /\ decoder_process' = decoder_process
          /\ decoder_aplay_process' = decoder_aplay_process
          /\ \A i \in AliveIds : procs'[i].state = "alive"]_vars

(* ---- claims about the supervisor's iteration ---- *)
\* the supervisor begins an iteration with a URL configured (the loop test has passed)
SupIterates == AtLoopTest /\ decoder_should_run /\ status_url # "" /\ SupStep
\* the main handle exists and has not exited, and a tracked second leg has not exited
BothLegsUp ==
    /\ decoder_process # None
    /\ procs[decoder_process].state = "alive"
    /\ (decoder_aplay_process # None => procs[decoder_aplay_process].state = "alive")
\* the iteration has raised before it could launch (lines 314-317)
IterationRaised == sup_pc' = "sleep_backoff" /\ UNCHANGED launchVars

\* C32: the supervisor takes the pipeline as alive (and only polls) exactly when the main
\* handle exists and has not exited and a tracked second leg has not exited either; with
\* any leg dead the same iteration drops the dead handles and begins a launch, unless
\* reading the stored settings raises.
C32_AliveOnlyWithEveryLeg ==
    [][SupIterates =>
          /\ (sup_pc' = "sleep_poll") <=> BothLegsUp
          /\ ~BothLegsUp =>
                \/ IterationRaised
                \/ /\ sup_pc' = "try_vlc"
                   /\ launch_log'["sup"] = <<>>
                   /\ decoder_process' \in {None, decoder_process}
                   /\ Exited(procs, decoder_process) => decoder_process' = None
                   /\ Exited(procs, decoder_aplay_process) => decoder_aplay_process' = None
      ]_vars

\* C32 witness: the supervisor is about to call the first launcher after it has found the
\* second leg of a two-process pipeline dead while the decoder itself still runs
C32_Witness ==
    /\ sup_pc = "try_vlc"
    /\ start_pc = "idle"
    /\ Alive(procs, decoder_process)
    /\ procs[decoder_process].kind \in {"ffmpeg", "mpg123"}
    /\ decoder_aplay_process = None

\* the supervisor's launch has come to its end with a pipeline started
RelaunchSucceeded == sup_pc \in {"vlc_wait", "ffmpeg_wait", "mpg123_wait"} /\ sup_pc' = "sleep_ok"
\* the supervisor's launch has come to its end with every launcher failed
RelaunchFailed == sup_pc \in {"ffmpeg_wait", "mpg123_wait"} /\ sup_pc' = "sleep_backoff"
\* min(backoffSeconds * 1.5, 10.0), in ticks of 1/32 s
ClaimedBackoff(b) == IF 3 * b <= 2 * (10 * 32) THEN (3 * b) \div 2 ELSE 10 * 32

\* C33: in a supervisor iteration with a URL configured, a successful relaunch and
\* finding the pipeline alive both set backoff to 1.0 s and consecutive_failures to 0; a
\* failed relaunch adds exactly 1 to consecutive_failures (as far as the counter is
\* kept) and sets backoff to min(backoff * 1.5, 10.0), the value the sleep then takes.
C33_BackoffBookkeeping ==
    [][/\ (RelaunchSucceeded \/ (SupIterates /\ sup_pc' = "sleep_poll")) =>
             (backoff' = 1 * 32 /\ consecutive_failures' = 0)
       /\ RelaunchFailed =>
             /\ consecutive_failures < MaxFailures =>
                   consecutive_failures' = consecutive_failures + 1
             /\ backoff' = ClaimedBackoff(backoff)
      ]_vars

\* C33 witness: the supervisor sleeps after its second failed relaunch in a row, with
\* the backoff at 1.0 * 1.5 * 1.5 s
C33_Witness ==
    /\ sup_pc = "sleep_backoff"
    /\ consecutive_failures = 2
    /\ backoff = 72
    /\ decoder_should_run

(* ---- claims about the order of the relayed bytes ---- *)
\* C34: what the pump has written to the output stage is, in order and without
\* duplication or gaps, a prefix of what it has read from the decode stage (the blocks
\* 1, 2, ... in the order read, pre-filled blocks first): no block that was read is
\* skipped or reordered while the pump runs.
C34_WrittenIsPrefixOfRead ==
    /\ Len(relay.written) <= relay.taken
    /\ \A i \in 1..Len(relay.written) : relay.written[i] = i

(* ---- claims about the capture meter threads ---- *)
\* C35: at most one read_audio_levels thread is running at any time: a restart starts
\* the new thread only after the previous one has returned.
C35_AtMostOneMeter == Cardinality(LiveMeters) <= 1

(* ---- claims about the settings of a relaunch ---- *)
\* the supervisor launches next after a start request has launched
RelaunchAfterStart == launch_args.by = "start" /\ launch_args'.by = "sup"

\* C36: a relaunch by the supervisor is given the same bufferSecs and playbackCacheSecs
\* as the launch of the start request that put the playback into service.
C36_RelaunchUsesStartSettings ==
    [][RelaunchAfterStart =>
          /\ launch_args'.buffer_secs = launch_args.buffer_secs
          /\ launch_args'.playback_cache_secs = launch_args.playback_cache_secs]_vars

(* ---- claims about the output device of a launch ---- *)
\* the device the claim names for a listing: plughw:N,0 for the first USB card listed,
\* else for the first card listed, else 'default'
ClaimedDevice(e) ==
    LET cards == {k \in 1..Len(e.lines) : e.lines[k].kind = "card"}
        usbs == {k \in cards : e.lines[k].usb}
    IN  IF usbs # {} THEN Plughw(e.lines[MinOf(usbs)].index)
        ELSE IF cards # {} THEN Plughw(e.lines[MinOf(cards)].index)
        ELSE DefaultDevice

\* C37: when no output device is supplied or configured, a launch uses plughw:N,0 for
\* the first USB card the enumerator lists, else for the first listed card, else
\* 'default'; the start request and the supervisor resolve the same device for the same
\* enumerator output.
C37_ResolvedOutputDevice ==
    /\ \A t \in Threads :
          devices.output_device[t].resolved =>
              devices.output_device[t].device = ClaimedDevice(devices.aplay_l)
    /\ (devices.output_device["start"].resolved /\ devices.output_device["sup"].resolved)
          => devices.output_device["start"].device = devices.output_device["sup"].device

\* C38: while the stored URL is empty, a step of the supervisor loop calls no launcher
\* and leaves the tracked handles, the process table, the backoff and the failure count
\* as they are; it goes to the one-second sleep, or ends because the flag is cleared
C38_EmptyUrlOnlySleeps ==
    [][(status_url = "" /\ SupStep)
          => /\ sup_pc' \in {"sleep_idle", "done"}
             /\ (sup_pc' = "sleep_idle") <=> decoder_should_run
             /\ UNCHANGED <<globals, procs, launchVars, backoff, consecutive_failures>>]_vars

\* the loop sleeps over a missing URL while a start request has set the flag
C38_Witness ==
    /\ sup_pc = "sleep_idle"
    /\ status_url = ""
    /\ decoder_should_run
    /\ backoff = initial_backoff
    /\ consecutive_failures = 0

\* a request handler (start or stop) takes a step
HandlerStep == <<start_pc, stop_pc, loc["start"], launch_log["start"]>>' #
               <<start_pc, stop_pc, loc["start"], launch_log["start"]>>

\* C39: a step of the supervisor loop leaves decoder_should_run and the stored URL as
\* they are, and a step of a start or stop request leaves the loop's backoff and
\* consecutive_failures as they are
C39_SeparateWriters ==
    [][/\ SupStep => UNCHANGED <<decoder_should_run, status_url>>
       /\ HandlerStep => UNCHANGED <<backoff, consecutive_failures>>]_vars

\* a stop and then a start have acted while the loop sleeps in its backoff: the flag is
\* set again and the loop's counters are those its failed launches left
C39_Witness ==
    /\ start_pc = "launch"
    /\ decoder_should_run
    /\ sup_pc = "sleep_backoff"
    /\ consecutive_failures > 0
    /\ backoff > initial_backoff
====
